---- MODULE Spec2Model ----
(***************************************************************************)
(* Model of the Soinda catalog synchronization engine                      *)
(* (src/src/lib/server/soinda-store.ts) and of the request handlers that   *)
(* drive it (src/src/app/api/domains/sync/route.ts).                       *)
(*                                                                         *)
(* Spec    models the embedded (SQLite) store: every store call is         *)
(*         synchronous, so a handler runs without interruption from one    *)
(*         await to the next.                                              *)
(* SpecPg  models the networked (PostgreSQL) store: every getMeta/setMeta  *)
(*         is awaited, so each of them is a point where other requests     *)
(*         interleave.                                                     *)
(* SpecLive is the embedded store under weak fairness of its steps.        *)
(* SpecFetch models the retry loop of fetchExternalDomainsRaw.             *)
(* SpecStore models the soinda_domains table under the page loops of       *)
(*         upsertMany and under resetSoindaCatalog.                        *)
(* SpecQuery models querySoindaDomains of both stores over that table.     *)
(* SpecCache models querySoindaAnalytics of the embedded store and its     *)
(*         cache under runs and resets; SpecCachePg models the networked   *)
(*         store, whose computation is suspended between reading the table *)
(*         and setting the cache entry.                                    *)
(* SpecPass is the embedded store over an upstream whose catalog does not  *)
(*         change, from the first run of a full pass to its completion.    *)
(* SpecRows models extractRows and normalizeDomain of                      *)
(*         src/src/lib/server/external-domains.ts over JSON payloads.      *)
(*                                                                         *)
(* Metadata keys that only record times or counts for display             *)
(* (sync_started_at, sync_finished_at, sync_last_normalized_count) are not *)
(* part of the state.                                                      *)
(***************************************************************************)
EXTENDS Integers, Sequences, FiniteSets, TLC

\* ---------------------------------------------------------------- bounds
MaxProcs == 2
MaxTicks == 2
MaxVersion == 2
MaxPage == 160
MaxPgPage == 2
MaxTs == 2
ShortCount == 40

\* ------------------------------------------------------ program constants
TWO_HOURS_MS == 2 * 60 * 60 * 1000
PAGE_SIZE_SYNC == 100
SYNC_MAX_PAGES_PER_RUN == 80

\* the clock advances in steps of two hours, starting two hours after epoch
TickMs == 2 * 60 * 60 * 1000

\* ------------------------------------------------------------ value sets
Null == <<>>
Some(v) == <<v>>
Val(x) == x[1]

Domains == {"a.com"}
ProcIds == 1..MaxProcs

\* pages on which the upstream may answer anything; on every other page it
\* answers with a full page that reports no total and carries one row with
\* the newest timestamp
EventPages == {1, SYNC_MAX_PAGES_PER_RUN, SYNC_MAX_PAGES_PER_RUN + 1, MaxPage}

\* totals the upstream may report (rows): 2 and 81 pages of 100 rows
Totals == {150, 8050}

\* messages of the errors fetchExternalDomainsRaw throws; a message is the
\* sequence of its lower-cased fragments, so that String.includes becomes
\* membership of a fragment
ERR_RATE == <<"soinda rate limit (", "429", "). reintenta en unos minutos.">>
ERR_UNAVAILABLE == <<"soinda api no disponible (", "503", ")">>
ERR_REJECTED == <<"soinda api error (", "404", ")">>
FetchErrors == {ERR_RATE, ERR_UNAVAILABLE, ERR_REJECTED}
MSG_BLOCKED == <<"rate limited by soinda (", "429", "). next retry after blockedUntil">>

VARIABLES now, store, meta, runningSync, analyticsVersion, procs, lastRun, fetcher,
          catalog, analyticsCache, exchange

vars == <<now, store, meta, runningSync, analyticsVersion, procs, lastRun, fetcher,
          catalog, analyticsCache, exchange>>

\* the table soinda_domains with all its columns, the analytics cache and
\* the request being answered
storeVars == <<catalog, analyticsCache, exchange>>

\* ------------------------------------------------------------- helpers
Max(a, b) == IF a >= b THEN a ELSE b

CeilDiv(a, b) == (a + b - 1) \div b

EmptyMeta ==
  [next_sync_not_before |-> Null, last_sync_at |-> Null, last_sync_error |-> Null,
   sync_mode |-> Null, sync_cursor_page |-> Null, sync_total_pages |-> Null,
   sync_last_page |-> Null, sync_last_source_count |-> Null, source_created_at_max |-> Null]

EmptyStore == [d \in Domains |-> Null]

FreeProc ==
  [pc |-> "free", kind |-> "none", force |-> FALSE, bypass |-> FALSE, reset |-> FALSE,
   awaited |-> FALSE, joined |-> 0, result |-> "none", err |-> <<>>,
   mode |-> "full", page |-> 0, startPage |-> 0, totalPages |-> 0, pagesProcessed |-> 0,
   maxSeenTs |-> 0, pageMaxTs |-> 0, cursorCreatedAtTs |-> 0, outcome |-> "none",
   startEmpty |-> FALSE]

\* fetchExternalDomainsRaw before it is called: no request made, no status
\* seen
IdleFetcher ==
  [pc |-> "idle", attempt |-> 0, lastStatus |-> 0, response |-> 0, requests |-> 0, waitMs |-> 0,
   retryAfter |-> [present |-> FALSE, numeric |-> FALSE, sec |-> 0], seen |-> {}, error |-> <<>>]

\* no request is being answered
NoExchange == [kind |-> "none"]

\* what is remembered of the run that ended last: nothing while a run is
\* in flight or after a reset
NoRun ==
  [outcome |-> "none", mode |-> "full", startPage |-> 0, page |-> 0, pagesProcessed |-> 0,
   totalPages |-> 0]

RunRecord(r) ==
  [outcome |-> r.outcome, mode |-> r.mode, startPage |-> r.startPage, page |-> r.page,
   pagesProcessed |-> r.pagesProcessed, totalPages |-> r.totalPages]

totalDomains(s) == Cardinality({d \in Domains : s[d] # Null})

\* ------------------------------------------------- pure store functions
isRateLimitError(message) ==
  \E i \in 1..Len(message) : message[i] \in {"429", "too many attempts", "throttle"}

getNextSyncNotBeforeTs(m) == m.next_sync_not_before

canSyncNow(m, t) ==
  LET nextTs == getNextSyncNotBeforeTs(m)
  IN IF nextTs = Null \/ Val(nextTs) = 0 THEN TRUE ELSE t >= Val(nextTs)

isSyncDue(m, t) ==
  IF m.last_sync_at = Null THEN TRUE ELSE t - Val(m.last_sync_at) >= TWO_HOURS_MS

getSyncMode(m) ==
  IF m.sync_mode = Some("incremental") THEN "incremental" ELSE "full"

\* max over a sequence of rows of the first parseable timestamp; 0 stands
\* for "no parseable timestamp" (getCreatedAtFromDomain returned null)
RECURSIVE MaxTsOf(_, _)
MaxTsOf(items, acc) ==
  IF items = <<>> THEN acc
  ELSE MaxTsOf(Tail(items), IF Head(items).ts # 0 /\ Head(items).ts > acc THEN Head(items).ts ELSE acc)

getMaxCreatedAtIso(items) ==
  LET maxTs == MaxTsOf(items, 0) IN IF maxTs = 0 THEN Null ELSE Some(maxTs)

getLocalMaxCreatedAtIso(s) ==
  LET stamps == {s[d].ts : d \in {e \in Domains : s[e] # Null /\ s[e].ts # 0}}
  IN IF stamps = {} THEN Null ELSE Some(CHOOSE x \in stamps : \A y \in stamps : y <= x)

\* INSERT ... ON CONFLICT(domain) DO UPDATE for every item, in order
RECURSIVE upsertMany(_, _)
upsertMany(s, items) ==
  IF items = <<>> THEN s
  ELSE upsertMany([s EXCEPT ![Head(items).domain] = [ts |-> Head(items).ts]], Tail(items))

getSoindaSyncStatus ==
  [isSyncing |-> runningSync # 0,
   lastSyncAt |-> meta.last_sync_at,
   lastError |-> meta.last_sync_error,
   totalDomains |-> totalDomains(store),
   nextSyncNotBefore |-> meta.next_sync_not_before,
   cursorPage |-> Max(1, IF meta.sync_cursor_page = Null THEN 1 ELSE Val(meta.sync_cursor_page)),
   totalPages |-> IF meta.sync_total_pages # Null /\ Val(meta.sync_total_pages) > 0 THEN meta.sync_total_pages ELSE Null,
   lastPage |-> IF meta.sync_last_page # Null /\ Val(meta.sync_last_page) > 0 THEN meta.sync_last_page ELSE Null,
   sourceCreatedAtMax |-> meta.source_created_at_max,
   syncMode |-> getSyncMode(meta)]

\* ------------------------------------------------------- the upstream
Rows == [domain : Domains, ts : 0..MaxTs]

PageData == {<<>>} \cup {<<r>> : r \in Rows}

\* what fetchExternalDomainsPage resolves to: the normalized rows, the raw
\* row count and the reported total
Responses == [data : PageData, sourceCount : {PAGE_SIZE_SYNC, ShortCount}, total : {Null} \cup {Some(t) : t \in Totals}]

PlainPage == [data |-> <<[domain |-> "a.com", ts |-> MaxTs]>>, sourceCount |-> PAGE_SIZE_SYNC, total |-> Null]

\* the upstream of the networked-store runs reports no total
PgResponses == {resp \in Responses : resp.total = Null}

\* the pages on which the upstream may answer with anything but a plain
\* page: the event pages and the third page
VariedPages == EventPages \cup {3}

ResponsesAt(page) == IF page \in VariedPages THEN Responses ELSE {PlainPage}

hasMore(resp) == resp.sourceCount >= PAGE_SIZE_SYNC

\* --------------------------------------------------- syncSoindaDomains
\* if (force) { setMeta x 4 }
ForceWrites(m, force) ==
  IF force
  THEN [m EXCEPT !.next_sync_not_before = Null, !.sync_mode = Some("full"),
                 !.sync_cursor_page = Some(1), !.sync_total_pages = Null]
  ELSE m

\* the mode taken from the metadata also when the store is empty
SelectMode_IgnoresEmptyStore(m, s, force) ==
  IF force THEN "full" ELSE getSyncMode(m)

\* const mode = force ? "full" : totalRow.count === 0 ? "full" : getSyncMode()
SelectMode(m, s, force) ==
  IF force THEN "full" ELSE IF totalDomains(s) = 0 THEN "full" ELSE getSyncMode(m)

\* the part of the run body that precedes the first page fetch
RunPrologue(m, s, force) ==
  LET m1 == [m EXCEPT !.last_sync_error = Null]
      mode == SelectMode(m1, s, force)
      m2 == [m1 EXCEPT !.sync_mode = Some(mode)]
      page == Max(1, IF m2.sync_cursor_page = Null THEN 1 ELSE Val(m2.sync_cursor_page))
      tp0 == IF m2.sync_total_pages = Null THEN 0 ELSE Val(m2.sync_total_pages)
      totalPages == IF tp0 <= 0 THEN 0 ELSE tp0
      stored == m2.source_created_at_max
      cursorRaw == IF mode # "incremental" THEN Null
                   ELSE IF stored # Null THEN stored ELSE getLocalMaxCreatedAtIso(s)
      m3 == IF mode = "incremental" /\ stored = Null /\ cursorRaw # Null
            THEN [m2 EXCEPT !.source_created_at_max = cursorRaw] ELSE m2
  IN [meta |-> m3, mode |-> mode, page |-> page, totalPages |-> totalPages,
      cursorCreatedAtTs |-> IF cursorRaw = Null THEN 0 ELSE Val(cursorRaw)]

\* the entry check left out
InFlight_Never(handle) == FALSE

\* if (runningSync) return runningSync
InFlight(handle) == handle # 0

\* the number of pages rounded down
TotalPagesOf_Floor(total) == Max(1, total \div PAGE_SIZE_SYNC)

\* totalPages = Math.max(1, Math.ceil(current.total / PAGE_SIZE_SYNC))
TotalPagesOf(total) == Max(1, CeilDiv(total, PAGE_SIZE_SYNC))

\* the known number of pages left out of the end test
ReachedEnd_ShortPageOnly(totalPages, page, resp) ==
  ~hasMore(resp) \/ resp.sourceCount < PAGE_SIZE_SYNC

\* the short-page test made on the normalized rows instead of the raw ones
ReachedEnd_NormalizedCount(totalPages, page, resp) ==
  IF totalPages > 0 THEN page >= totalPages
  ELSE Len(resp.data) < PAGE_SIZE_SYNC

\* const reachedEnd = totalPages > 0 ? page >= totalPages : !hasMore || sourceCount < PAGE_SIZE_SYNC
ReachedEnd(totalPages, page, resp) ==
  IF totalPages > 0 THEN page >= totalPages
  ELSE ~hasMore(resp) \/ resp.sourceCount < PAGE_SIZE_SYNC

\* a run without a watermark taken as having seen everything
HasNewerOnPage_NeedsCursor(cursorTs, pageMaxIso) ==
  LET hasCursor == cursorTs > 0
  IN hasCursor /\ pageMaxIso # Null /\ Val(pageMaxIso) > cursorTs

\* a page whose newest row equals the watermark taken as newer
HasNewerOnPage_OrEqual(cursorTs, pageMaxIso) ==
  LET hasCursor == cursorTs > 0
  IN ~hasCursor \/ (pageMaxIso # Null /\ Val(pageMaxIso) >= cursorTs)

\* hasNewerOnPage; cursorTs = 0 stands for NaN (no watermark)
HasNewerOnPage(cursorTs, pageMaxIso) ==
  LET hasCursor == cursorTs > 0
  IN ~hasCursor \/ (pageMaxIso # Null /\ Val(pageMaxIso) > cursorTs)

\* the budget compared with > instead of >=
BudgetExhausted_OffByOne(pagesProcessed) == pagesProcessed > SYNC_MAX_PAGES_PER_RUN

\* if (pagesProcessed >= SYNC_MAX_PAGES_PER_RUN)
BudgetExhausted(pagesProcessed) == pagesProcessed >= SYNC_MAX_PAGES_PER_RUN

\* the cursor left on the page just processed
CursorAfterBudget_SamePage(page) == page

\* setMeta("sync_cursor_page", String(page + 1)) when the budget is used up
CursorAfterBudget(page) == page + 1

\* the flip placed outside the if (completed) block
ModeAfterRun_Unconditional(mode, completed, current) ==
  IF mode = "full" THEN Some("incremental") ELSE current

\* if (mode === "full") setMeta("sync_mode", "incremental"), inside if (completed)
ModeAfterRun(mode, completed, current) ==
  IF completed /\ mode = "full" THEN Some("incremental") ELSE current

\* the completion block without the reset of sync_total_pages
CompletedWrites_KeepsTotal(m, t) ==
  [m EXCEPT !.last_sync_at = Some(t), !.next_sync_not_before = Null,
            !.sync_cursor_page = Some(1)]

\* the writes of the if (completed) block
CompletedWrites(m, t) ==
  [m EXCEPT !.last_sync_at = Some(t), !.next_sync_not_before = Null,
            !.sync_cursor_page = Some(1), !.sync_total_pages = Null]

\* the break after the cursor write left out
LoopExits_OnlyCompleted(completed, exhausted) == completed

\* the loop is left by the break of a completed run or by the break that
\* follows the cursor write when the budget is used up
LoopExits(completed, exhausted) == completed \/ exhausted

\* one iteration of the page loop after the fetch resolved, up to the next
\* await or to the end of the run body
PageStep(m, s, r, resp, t) ==
  LET s1 == upsertMany(s, resp.data)
      pagesProcessed == r.pagesProcessed + 1
      learn == r.totalPages = 0 /\ resp.total # Null
      totalPages == IF learn THEN TotalPagesOf(Val(resp.total)) ELSE r.totalPages
      m1 == IF learn THEN [m EXCEPT !.sync_total_pages = Some(totalPages)] ELSE m
      m2 == [m1 EXCEPT !.sync_last_page = Some(r.page), !.sync_last_source_count = Some(resp.sourceCount)]
      pageMaxIso == getMaxCreatedAtIso(resp.data)
      pageMaxTs == IF pageMaxIso = Null THEN 0 ELSE Val(pageMaxIso)
      maxSeenTs == IF pageMaxIso # Null /\ pageMaxTs > r.maxSeenTs THEN pageMaxTs ELSE r.maxSeenTs
      reachedEnd == ReachedEnd(totalPages, r.page, resp)
      converged == r.mode = "incremental" /\ ~HasNewerOnPage(r.cursorCreatedAtTs, pageMaxIso)
      completed == reachedEnd \/ converged
      exhausted == ~completed /\ BudgetExhausted(pagesProcessed)
      ended == LoopExits(completed, exhausted)
      m3 == IF exhausted THEN [m2 EXCEPT !.sync_cursor_page = Some(CursorAfterBudget(r.page))] ELSE m2
      m4 == IF ended /\ maxSeenTs > 0
            THEN [m3 EXCEPT !.source_created_at_max = Some(maxSeenTs)] ELSE m3
      m5 == IF completed THEN CompletedWrites(m4, t) ELSE m4
      m6 == IF ended THEN [m5 EXCEPT !.sync_mode = ModeAfterRun(r.mode, completed, @)] ELSE m5
  IN [meta |-> m6, store |-> s1,
      ended |-> ended,
      proc |-> [r EXCEPT !.pagesProcessed = pagesProcessed, !.totalPages = totalPages,
                         !.maxSeenTs = maxSeenTs, !.pageMaxTs = pageMaxTs,
                         !.page = IF ended THEN r.page ELSE r.page + 1,
                         !.outcome = IF completed THEN "Completed" ELSE IF exhausted THEN "Interrupted" ELSE "none",
                         !.pc = IF ended THEN "resolved" ELSE "sleep"]]

\* the cooldown set after every error
CatchWrites_AlwaysCooldown(m, message, t) ==
  [m EXCEPT !.next_sync_not_before = Some(t + TWO_HOURS_MS),
            !.last_sync_error = Some(IF isRateLimitError(message) THEN MSG_BLOCKED ELSE message)]

\* .catch(error => ...): classify and persist the error, then rethrow
CatchWrites(m, message, t) ==
  IF isRateLimitError(message)
  THEN [m EXCEPT !.next_sync_not_before = Some(t + TWO_HOURS_MS), !.last_sync_error = Some(MSG_BLOCKED)]
  ELSE [m EXCEPT !.last_sync_error = Some(message)]

\* --------------------------------------------------------------- state
RunPcs == {"prologue", "fetch", "sleep", "rejected", "rethrown", "resolved", "beyond"}

IsRun(r) == r.pc \in RunPcs

ActiveRuns == Cardinality({c \in ProcIds : IsRun(procs[c])})

\* every started run and every reset adds one to analyticsVersion; neither
\* is started when the counter could pass MaxVersion
VersionRoom == analyticsVersion + ActiveRuns < MaxVersion

LowestFree(c) == procs[c].pc = "free" /\ \A k \in ProcIds : k < c => procs[k].pc # "free"

\* a settled promise resumes the handlers that await it before any other
\* event is served
NoneDone == \A c \in ProcIds : procs[c].pc # "done"

\* on the embedded store nothing is awaited between the end of the run body
\* (or the rejection of a fetch) and the finally handler, so no request is
\* served in between
NoSettling == \A c \in ProcIds : procs[c].pc \notin {"resolved", "rejected", "rethrown"}

\* requests and clock ticks are observed only while no run is between two
\* event pages
AtEventPage ==
  /\ NoneDone
  /\ \A c \in ProcIds : procs[c].pc \in {"fetch", "sleep"} => procs[c].page \in EventPages

Init ==
  /\ now = TickMs
  /\ store = EmptyStore
  /\ meta = EmptyMeta
  /\ runningSync = 0
  /\ analyticsVersion = 0
  /\ procs = [c \in ProcIds |-> FreeProc]
  /\ lastRun = NoRun
  /\ fetcher = IdleFetcher
  /\ catalog = {}
  /\ analyticsCache = {}
  /\ exchange = NoExchange

\* time passes
Tick ==
  /\ AtEventPage
  /\ now < MaxTicks * TickMs
  /\ now' = now + TickMs
  /\ UNCHANGED <<store, meta, runningSync, analyticsVersion, procs, lastRun, fetcher, storeVars>>

\* a reset that leaves the cache version alone
resetSoindaCatalog_KeepsVersion(m, s, v) == [meta |-> EmptyMeta, store |-> EmptyStore, version |-> v]

\* resetSoindaCatalog: DELETE FROM soinda_domains; DELETE FROM soinda_meta
resetSoindaCatalog(m, s, v) == [meta |-> EmptyMeta, store |-> EmptyStore, version |-> v + 1]

\* a run is started only where its page budget fits below MaxPage
PageRoom(page) == page + SYNC_MAX_PAGES_PER_RUN - 1 <= MaxPage

\* the guard without the cooldown test
PassesSchedule_IgnoresCooldown(m, t, force, bypassSchedule) ==
  ~(~bypassSchedule /\ ~force /\ ~isSyncDue(m, t))

\* the scheduling guard of a call: TRUE when the call may go on to a run
PassesSchedule(m, t, force, bypassSchedule) ==
  ~(~bypassSchedule /\ ~force /\ (~isSyncDue(m, t) \/ ~canSyncNow(m, t)))

\* syncSoindaDomains(force, bypassSchedule) on the embedded store, from the
\* call to its first await, in the state <<m0, s0, v0>>; awaited tells
\* whether the caller awaits the returned promise
syncSoindaDomains(c, kind, force, bypassSchedule, reset, awaited, m0, s0, v0) ==
  LET caller == [FreeProc EXCEPT !.kind = kind, !.force = force, !.bypass = bypassSchedule,
                                 !.reset = reset, !.awaited = awaited]
  IN IF InFlight(runningSync)
     THEN /\ meta' = m0 /\ store' = s0 /\ analyticsVersion' = v0
          /\ runningSync' = runningSync
          /\ lastRun' = IF reset THEN NoRun ELSE lastRun
          /\ procs' = IF awaited
                      THEN [procs EXCEPT ![c] = [caller EXCEPT !.pc = "joined", !.joined = runningSync]]
                      ELSE procs
     ELSE IF ~PassesSchedule(m0, now, force, bypassSchedule)
     THEN /\ meta' = m0 /\ store' = s0 /\ analyticsVersion' = v0
          /\ runningSync' = runningSync
          /\ lastRun' = IF reset THEN NoRun ELSE lastRun
          /\ procs' = IF awaited
                      THEN [procs EXCEPT ![c] = [caller EXCEPT !.pc = "done", !.result = "ok"]]
                      ELSE procs
     ELSE LET pro == RunPrologue(ForceWrites(m0, force), s0, force)
          IN /\ PageRoom(pro.page)
             /\ meta' = pro.meta
             /\ store' = s0
             /\ analyticsVersion' = v0
             /\ runningSync' = c
             /\ lastRun' = NoRun
             /\ procs' = [procs EXCEPT ![c] =
                            [caller EXCEPT !.pc = "fetch", !.mode = pro.mode, !.page = pro.page,
                                           !.startPage = pro.page, !.totalPages = pro.totalPages,
                                           !.startEmpty = (totalDomains(s0) = 0),
                                           !.cursorCreatedAtTs = pro.cursorCreatedAtTs]]

\* POST /api/domains/sync with body {force, reset}
PostSync(c, force, reset) ==
  /\ AtEventPage
  /\ NoSettling
  /\ LowestFree(c)
  /\ VersionRoom
  /\ LET st == IF reset THEN resetSoindaCatalog(meta, store, analyticsVersion)
               ELSE [meta |-> meta, store |-> store, version |-> analyticsVersion]
     IN syncSoindaDomains(c, "post", force, TRUE, reset, TRUE, st.meta, st.store, st.version)
  /\ UNCHANGED <<now, fetcher, storeVars>>

\* ensureSoindaDataLoaded, called by the domains and analytics GET handlers
ensureSoindaDataLoaded(c) ==
  /\ AtEventPage
  /\ NoSettling
  /\ LowestFree(c)
  /\ VersionRoom
  /\ IF totalDomains(store) = 0
     THEN syncSoindaDomains(c, "auto", TRUE, FALSE, FALSE, TRUE, meta, store, analyticsVersion)
     ELSE syncSoindaDomains(c, "auto", FALSE, FALSE, FALSE, FALSE, meta, store, analyticsVersion)
  /\ UNCHANGED <<now, fetcher, storeVars>>

\* fetchExternalDomainsPage resolves and the loop runs to its next await; a
\* run that goes on behind lastPage is followed no further and stays Running
FetchReturn(c, resp, lastPage) ==
  /\ NoneDone
  /\ procs[c].pc = "fetch"
  /\ resp \in ResponsesAt(procs[c].page)
  /\ LET st == PageStep(meta, store, procs[c], resp, now)
     IN /\ meta' = st.meta
        /\ store' = st.store
        /\ analyticsVersion' = IF st.ended THEN analyticsVersion + 1 ELSE analyticsVersion
        /\ procs' = [procs EXCEPT ![c] = IF st.proc.page <= lastPage THEN st.proc
                                         ELSE [st.proc EXCEPT !.pc = "beyond"]]
        /\ lastRun' = IF st.ended THEN RunRecord(st.proc) ELSE lastRun
  /\ UNCHANGED <<now, runningSync, fetcher, storeVars>>

\* fetchExternalDomainsPage rejects
FetchFail(c, message) ==
  /\ NoneDone
  /\ procs[c].pc = "fetch"
  /\ procs[c].page \in EventPages
  /\ procs' = [procs EXCEPT ![c] = [@ EXCEPT !.pc = "rejected", !.err = message, !.outcome = "Failed"]]
  /\ lastRun' = RunRecord(procs'[c])
  /\ UNCHANGED <<now, store, meta, runningSync, analyticsVersion, fetcher, storeVars>>

\* the 250 ms pause between two pages is over
InterPageDelay(c) ==
  /\ NoneDone
  /\ procs[c].pc = "sleep"
  /\ procs' = [procs EXCEPT ![c] = [@ EXCEPT !.pc = "fetch"]]
  /\ UNCHANGED <<now, store, meta, runningSync, analyticsVersion, lastRun, fetcher, storeVars>>

\* .catch handler of the run promise
Catch(c) ==
  /\ NoneDone
  /\ procs[c].pc = "rejected"
  /\ meta' = CatchWrites(meta, procs[c].err, now)
  /\ procs' = [procs EXCEPT ![c] = [@ EXCEPT !.pc = "rethrown"]]
  /\ UNCHANGED <<now, store, runningSync, analyticsVersion, lastRun, fetcher, storeVars>>

\* the rejection swallowed: whoever awaits the promise sees it fulfilled
Settled_AlwaysFulfilled(r, run) ==
  [FreeProc EXCEPT !.pc = "done", !.kind = r.kind, !.force = r.force, !.bypass = r.bypass,
                   !.reset = r.reset, !.awaited = TRUE, !.joined = r.joined,
                   !.result = "ok"]

\* the outcome a settled run promise hands to whoever awaits it
Settled(r, run) ==
  [FreeProc EXCEPT !.pc = "done", !.kind = r.kind, !.force = r.force, !.bypass = r.bypass,
                   !.reset = r.reset, !.awaited = TRUE, !.joined = r.joined,
                   !.result = IF run.outcome = "Failed" THEN "err" ELSE "ok",
                   !.err = IF run.outcome = "Failed" THEN run.err ELSE <<>>]

\* .finally handler: the handle is cleared and the promise settles for the
\* initiating call and for every call that was handed the same promise
Finally(c) ==
  /\ NoneDone
  /\ procs[c].pc \in {"resolved", "rethrown"}
  /\ runningSync' = 0
  /\ procs' = [k \in ProcIds |->
                 IF k = c THEN (IF procs[c].awaited THEN Settled(procs[c], procs[c]) ELSE FreeProc)
                 ELSE IF procs[k].pc = "joined" /\ procs[k].joined = c THEN Settled(procs[k], procs[c])
                 ELSE procs[k]]
  /\ UNCHANGED <<now, store, meta, analyticsVersion, lastRun, fetcher, storeVars>>

\* the handler that awaited the call answers its request
Respond(c) ==
  /\ procs[c].pc = "done"
  /\ procs' = [procs EXCEPT ![c] = FreeProc]
  /\ UNCHANGED <<now, store, meta, runningSync, analyticsVersion, lastRun, fetcher, storeVars>>

\* the steps of the program: requests and what the runs do
Step ==
  \/ \E c \in ProcIds, force \in BOOLEAN, reset \in BOOLEAN : PostSync(c, force, reset)
  \/ \E c \in ProcIds : ensureSoindaDataLoaded(c)
  \/ \E c \in ProcIds, resp \in Responses : FetchReturn(c, resp, MaxPage)
  \/ \E c \in ProcIds, message \in FetchErrors : FetchFail(c, message)
  \/ \E c \in ProcIds : InterPageDelay(c)
  \/ \E c \in ProcIds : Catch(c)
  \/ \E c \in ProcIds : Finally(c)
  \/ \E c \in ProcIds : Respond(c)

Next == Tick \/ Step

Spec == Init /\ [][Next]_vars

\* the page request of run c returns, with a page or with an error
HttpReturns(c) ==
  \/ \E resp \in Responses : FetchReturn(c, resp, MaxPage)
  \/ \E message \in FetchErrors : FetchFail(c, message)

\* every HTTP request returns, every timer fires and every promise
\* continuation is run
Fairness ==
  \A c \in ProcIds :
    /\ WF_vars(HttpReturns(c))
    /\ WF_vars(InterPageDelay(c))
    /\ WF_vars(Catch(c))
    /\ WF_vars(Finally(c))
    /\ WF_vars(Respond(c))

\* the program under fair scheduling, at one time of the clock: the page
\* loop never reads the clock
SpecLive == Init /\ [][Step]_vars /\ Fairness

\* ----------------------------------------------- the networked store
\* syncSoindaDomains(force, bypassSchedule) on the networked store, from the
\* call to its first await.  The guard reads and the forced writes are
\* awaited one by one; the handle is assigned only after the last of them.
syncSoindaDomainsPg(c, kind, force, bypassSchedule, awaited) ==
  LET caller == [FreeProc EXCEPT !.kind = kind, !.force = force, !.bypass = bypassSchedule,
                                 !.awaited = awaited]
  IN IF InFlight(runningSync)
     THEN /\ runningSync' = runningSync
          /\ procs' = IF awaited
                      THEN [procs EXCEPT ![c] = [caller EXCEPT !.pc = "joined", !.joined = runningSync]]
                      ELSE procs
     ELSE IF ~bypassSchedule /\ ~force
     THEN /\ runningSync' = runningSync
          /\ procs' = [procs EXCEPT ![c] = [caller EXCEPT !.pc = "isSyncDue"]]
     ELSE IF force
     THEN /\ runningSync' = runningSync
          /\ procs' = [procs EXCEPT ![c] = [caller EXCEPT !.pc = "force1"]]
     ELSE /\ runningSync' = c
          /\ procs' = [procs EXCEPT ![c] = [caller EXCEPT !.pc = "prologue"]]

\* POST /api/domains/sync with body {force} against the networked store
PgPostSync(c, force) ==
  /\ AtEventPage
  /\ LowestFree(c)
  /\ VersionRoom
  /\ syncSoindaDomainsPg(c, "post", force, TRUE, TRUE)
  /\ UNCHANGED <<now, store, meta, analyticsVersion, lastRun, fetcher, storeVars>>

\* ensureSoindaDataLoaded against the networked store; getTotalDomains is
\* answered before the call goes on
PgEnsureSoindaDataLoaded(c) ==
  /\ AtEventPage
  /\ LowestFree(c)
  /\ VersionRoom
  /\ IF totalDomains(store) = 0
     THEN syncSoindaDomainsPg(c, "auto", TRUE, FALSE, TRUE)
     ELSE syncSoindaDomainsPg(c, "auto", FALSE, FALSE, FALSE)
  /\ UNCHANGED <<now, store, meta, analyticsVersion, lastRun, fetcher, storeVars>>

\* the call returns without a run: it settles at once for an awaiting
\* caller and leaves nothing behind otherwise
ReturnNoRun(r) == IF r.awaited THEN [r EXCEPT !.pc = "done", !.result = "ok"] ELSE FreeProc

\* await isSyncDue() answered
PgIsSyncDue(c) ==
  /\ NoneDone
  /\ procs[c].pc = "isSyncDue"
  /\ procs' = [procs EXCEPT ![c] = IF isSyncDue(meta, now) THEN [@ EXCEPT !.pc = "canSyncNow"]
                                   ELSE ReturnNoRun(@)]
  /\ UNCHANGED <<now, store, meta, runningSync, analyticsVersion, lastRun, fetcher, storeVars>>

\* await canSyncNow() answered; a call that passes goes on to the handle
\* assignment without another await
PgCanSyncNow(c) ==
  /\ NoneDone
  /\ procs[c].pc = "canSyncNow"
  /\ IF canSyncNow(meta, now)
     THEN /\ runningSync' = c
          /\ procs' = [procs EXCEPT ![c] = [@ EXCEPT !.pc = "prologue"]]
     ELSE /\ runningSync' = runningSync
          /\ procs' = [procs EXCEPT ![c] = ReturnNoRun(@)]
  /\ UNCHANGED <<now, store, meta, analyticsVersion, lastRun, fetcher, storeVars>>

\* the k-th awaited setMeta of the forced branch; the handle is assigned
\* when the fourth has been answered
PgForceWrite(c, k) ==
  /\ NoneDone
  /\ procs[c].pc = <<"force1", "force2", "force3", "force4">>[k]
  /\ meta' = <<[meta EXCEPT !.next_sync_not_before = Null],
               [meta EXCEPT !.sync_mode = Some("full")],
               [meta EXCEPT !.sync_cursor_page = Some(1)],
               [meta EXCEPT !.sync_total_pages = Null]>>[k]
  /\ IF k < 4
     THEN /\ runningSync' = runningSync
          /\ procs' = [procs EXCEPT ![c] = [@ EXCEPT !.pc = <<"force2", "force3", "force4">>[k]]]
     ELSE /\ runningSync' = c
          /\ procs' = [procs EXCEPT ![c] = [@ EXCEPT !.pc = "prologue"]]
  /\ UNCHANGED <<now, store, analyticsVersion, lastRun, fetcher, storeVars>>

\* the run body up to its first page fetch
PgPrologue(c) ==
  /\ NoneDone
  /\ procs[c].pc = "prologue"
  /\ LET pro == RunPrologue(meta, store, procs[c].force)
     IN /\ meta' = pro.meta
        /\ procs' = [procs EXCEPT ![c] =
                       [@ EXCEPT !.pc = "fetch", !.mode = pro.mode, !.page = pro.page,
                                 !.startPage = pro.page, !.totalPages = pro.totalPages,
                                 !.startEmpty = (totalDomains(store) = 0),
                                 !.cursorCreatedAtTs = pro.cursorCreatedAtTs]]
  /\ lastRun' = NoRun
  /\ UNCHANGED <<now, store, runningSync, analyticsVersion, fetcher, storeVars>>

NextPg ==
  \/ Tick
  \/ \E c \in ProcIds, force \in BOOLEAN : PgPostSync(c, force)
  \/ \E c \in ProcIds : PgEnsureSoindaDataLoaded(c)
  \/ \E c \in ProcIds : PgIsSyncDue(c)
  \/ \E c \in ProcIds : PgCanSyncNow(c)
  \/ \E c \in ProcIds, k \in 1..4 : PgForceWrite(c, k)
  \/ \E c \in ProcIds : PgPrologue(c)
  \/ \E c \in ProcIds, resp \in PgResponses : FetchReturn(c, resp, MaxPgPage)
  \/ \E c \in ProcIds, message \in FetchErrors : FetchFail(c, message)
  \/ \E c \in ProcIds : InterPageDelay(c)
  \/ \E c \in ProcIds : Catch(c)
  \/ \E c \in ProcIds : Finally(c)
  \/ \E c \in ProcIds : Respond(c)

SpecPg == Init /\ [][NextPg]_vars

\* ------------------------------------------- fetchExternalDomainsRaw
MAX_RETRIES == 8

\* the statuses the upstream answers with
Statuses == {200, 204, 304, 404, 429, 500, 503}

StatusText == [s \in Statuses |-> CASE s = 200 -> "200" [] s = 204 -> "204" [] s = 304 -> "304"
                                     [] s = 404 -> "404" [] s = 429 -> "429" [] s = 500 -> "500"
                                     [] s = 503 -> "503"]

\* the seconds a numeric Retry-After header may carry
RetryAfterSecs == {-1, 0, 1, 60, 120, 121}

NoHeader == [present |-> FALSE, numeric |-> FALSE, sec |-> 0]

\* response.headers.get("retry-after"): absent, a text Number() turns into
\* NaN (an HTTP date), or a number of seconds
RetryAfterHeaders ==
  {NoHeader, [present |-> TRUE, numeric |-> FALSE, sec |-> 0]}
    \cup {[present |-> TRUE, numeric |-> TRUE, sec |-> s] : s \in RetryAfterSecs}

ERR_NO_KEY == <<"falta external_domains_api_key en variables de entorno">>
ERR_NETWORK == <<"fetch failed">>

RejectedError(status) == <<"soinda api error (", StatusText[status], ")">>

UnavailableError(status) == <<"soinda api no disponible (", StatusText[status], ")">>

Min(a, b) == IF a <= b THEN a ELSE b

RECURSIVE Pow2(_)
Pow2(k) == IF k = 0 THEN 1 ELSE 2 * Pow2(k - 1)

\* response.ok
IsOk(status) == status >= 200 /\ status <= 299

\* the Retry-After seconds used as they come
RateLimitWaitMs_Unclamped(header, attempt) ==
  IF header.present /\ header.numeric THEN header.sec * 1000
  ELSE Min(120000, 2000 * Pow2(attempt))

\* waitMs after a 429
RateLimitWaitMs(header, attempt) ==
  IF header.present /\ header.numeric THEN Min(120000, Max(1000, header.sec * 1000))
  ELSE Min(120000, 2000 * Pow2(attempt))

\* waitMs after a status >= 500
UnavailableWaitMs(attempt) == Min(30000, 1000 * Pow2(attempt))

\* the loop condition with < instead of <=
MayRetry_OneLess(attempt) == attempt < MAX_RETRIES

\* attempt <= MAX_RETRIES, the condition of the for loop
MayRetry(attempt) == attempt <= MAX_RETRIES

\* the rate-limit error behind the loop whatever the last status was
ExhaustedError_AlwaysRate(lastStatus) == ERR_RATE

\* the error thrown behind the loop
ExhaustedError(lastStatus) ==
  IF lastStatus = 429 THEN ERR_RATE ELSE UnavailableError(lastStatus)

\* fetchExternalDomainsRaw is called, for the first time or after the
\* previous call has returned or thrown; without an API key it throws before
\* any request
FetchStart(hasKey) ==
  /\ fetcher.pc \in {"idle", "returned", "failed"}
  /\ fetcher' = IF hasKey THEN [IdleFetcher EXCEPT !.pc = "request"]
                ELSE [IdleFetcher EXCEPT !.pc = "failed", !.error = ERR_NO_KEY]
  /\ UNCHANGED <<now, store, meta, runningSync, analyticsVersion, procs, lastRun, storeVars>>

\* the request of the current attempt is answered with status and header
HttpResponse(status, header) ==
  /\ fetcher.pc = "request"
  /\ LET f == [fetcher EXCEPT !.requests = @ + 1, !.seen = @ \cup {status}, !.response = status]
     IN fetcher' =
          IF IsOk(status) THEN [f EXCEPT !.pc = "returned"]
          ELSE IF status = 429
          THEN [f EXCEPT !.pc = "wait", !.lastStatus = status, !.retryAfter = header,
                         !.waitMs = RateLimitWaitMs(header, fetcher.attempt)]
          ELSE IF status >= 500
          THEN [f EXCEPT !.pc = "wait", !.lastStatus = status, !.retryAfter = NoHeader,
                         !.waitMs = UnavailableWaitMs(fetcher.attempt)]
          ELSE [f EXCEPT !.pc = "failed", !.lastStatus = status, !.error = RejectedError(status)]
  /\ UNCHANGED <<now, store, meta, runningSync, analyticsVersion, procs, lastRun, storeVars>>

\* fetch() itself rejects: the error leaves the function at once
HttpError ==
  /\ fetcher.pc = "request"
  /\ fetcher' = [fetcher EXCEPT !.pc = "failed", !.requests = @ + 1, !.response = 0,
                                !.error = ERR_NETWORK]
  /\ UNCHANGED <<now, store, meta, runningSync, analyticsVersion, procs, lastRun, storeVars>>

\* the wait is over: continue, attempt += 1, and the loop condition
BackoffOver ==
  /\ fetcher.pc = "wait"
  /\ fetcher' = IF MayRetry(fetcher.attempt + 1)
                THEN [fetcher EXCEPT !.pc = "request", !.attempt = @ + 1]
                ELSE [fetcher EXCEPT !.pc = "failed", !.attempt = @ + 1,
                                     !.error = ExhaustedError(fetcher.lastStatus)]
  /\ UNCHANGED <<now, store, meta, runningSync, analyticsVersion, procs, lastRun, storeVars>>

NextFetch ==
  \/ \E hasKey \in BOOLEAN : FetchStart(hasKey)
  \/ \E status \in Statuses, header \in RetryAfterHeaders : HttpResponse(status, header)
  \/ HttpError
  \/ BackoffOver

SpecFetch == Init /\ [][NextFetch]_vars

\* ------------------------------------------- the table soinda_domains
MaxPageRows == 2

CatDomains == {"a.com", "b.net", "c.org"}

\* the domains the upstream pages of a run may name
LoopDomains == {"a.com", "b.net"}

\* a text is the sequence of its characters; the texts that are stored or
\* named in the code, spelled out
Spelling ==
  "a.com" :> <<"a", ".", "c", "o", "m">> @@
  "b.net" :> <<"b", ".", "n", "e", "t">> @@
  "c.org" :> <<"c", ".", "o", "r", "g">> @@
  "com" :> <<"c", "o", "m">> @@
  "net" :> <<"n", "e", "t">> @@
  "org" :> <<"o", "r", "g">> @@
  "EUR" :> <<"E", "U", "R">> @@
  "USD" :> <<"U", "S", "D">> @@
  "active" :> <<"a", "c", "t", "i", "v", "e">> @@
  "Parked" :> <<"P", "a", "r", "k", "e", "d">> @@
  "gold" :> <<"g", "o", "l", "d">> @@
  "Silver" :> <<"S", "i", "l", "v", "e", "r">> @@
  "7" :> <<"7">> @@
  "level" :> <<"l", "e", "v", "e", "l">> @@
  "score" :> <<"s", "c", "o", "r", "e">> @@
  "domain" :> <<"d", "o", "m", "a", "i", "n">> @@
  "tld" :> <<"t", "l", "d">> @@
  "available" :> <<"a", "v", "a", "i", "l", "a", "b", "l", "e">> @@
  "price" :> <<"p", "r", "i", "c", "e">> @@
  "currency" :> <<"c", "u", "r", "r", "e", "n", "c", "y">> @@
  "status" :> <<"s", "t", "a", "t", "u", "s">>

Chars(s) == Spelling[s]

\* domain.split("."): the labels of a domain name
RECURSIVE Labels(_)
Labels(text) ==
  IF \A i \in 1..Len(text) : text[i] # "." THEN <<text>>
  ELSE LET i == CHOOSE k \in 1..Len(text) : text[k] = "." /\ \A m \in 1..(k - 1) : text[m] # "."
       IN <<SubSeq(text, 1, i - 1)>> \o Labels(SubSeq(text, i + 1, Len(text)))

\* normalizeDomain: tld = parts[parts.length - 1]
TldOf(domain) ==
  LET parts == Labels(Chars(domain))
  IN CHOOSE t \in DOMAIN Spelling : Chars(t) = parts[Len(parts)]

\* a member of a raw upstream object: its key, the JSON type of its value
\* and the text of the value
Member(key, type, text) == [key |-> key, type |-> type, text |-> text]

\* the raw upstream objects: the members of a JSON object, in order
RawGold == <<Member("level", "string", "gold")>>
RawSilver == <<Member("level", "string", "Silver"), Member("score", "number", "7")>>
RawBare == <<>>

\* what normalizeDomain hands over for one domain, the domain name aside
Payloads ==
  {[available |-> Some(TRUE), price |-> Some(10), currency |-> Some("EUR"),
    status |-> Some("active"), raw |-> RawGold],
   [available |-> Some(FALSE), price |-> Some(20), currency |-> Some("USD"),
    status |-> Some("Parked"), raw |-> RawSilver],
   [available |-> Null, price |-> Null, currency |-> Null,
    status |-> Null, raw |-> RawBare]}

\* MarketplaceDomain
ItemsOf(domains) ==
  {[domain |-> d, tld |-> TldOf(d), available |-> p.available, price |-> p.price,
    currency |-> p.currency, status |-> p.status, raw |-> p.raw] : d \in domains, p \in Payloads}

\* current.data of one fetched page: at most n items
PagesUpTo(items, n) == UNION {[1..k -> items] : k \in 0..n}

\* the pages a run ingests: one page, or two pages, of MaxPageRows rows
\* together
Loops(items) ==
  {<<p>> : p \in PagesUpTo(items, MaxPageRows)}
    \cup {pq \in PagesUpTo(items, MaxPageRows) \X PagesUpTo(items, MaxPageRows) :
            Len(pq[1]) + Len(pq[2]) <= MaxPageRows}

\* JSON.stringify(item.raw || {}): a text that parses to an object with the
\* same members
JsonStringify(raw) == [json |-> "object", members |-> raw]

\* parseJsonObject
parseJsonObject(value) ==
  IF value = Null THEN <<>>
  ELSE IF value.json = "object" THEN value.members ELSE <<>>

\* the parameters of upsertStmt.run for one item
RowOf(item, nowIso) ==
  [domain |-> item.domain, tld |-> item.tld,
   available |-> IF item.available = Null THEN Null ELSE IF Val(item.available) THEN Some(1) ELSE Some(0),
   price |-> item.price, currency |-> item.currency, status |-> item.status,
   raw_json |-> JsonStringify(item.raw), updated_at |-> nowIso]

\* a conflicting row adds the new price to its own
Conflict_SumsPrice(old, excluded) ==
  [excluded EXCEPT !.price = IF old.price # Null /\ excluded.price # Null
                             THEN Some(Val(old.price) + Val(excluded.price)) ELSE excluded.price]

\* ON CONFLICT(domain) DO UPDATE SET tld = excluded.tld, ... : every column
\* of the stored row is taken from the new one
Conflict(old, excluded) == excluded

\* the row of a domain that is already stored keeps its place: INSERT
\* without ON CONFLICT ... DO UPDATE
UpsertOne_KeepsFirst(rows, item, nowIso) ==
  IF \E r \in rows : r.domain = item.domain THEN rows
  ELSE rows \cup {RowOf(item, nowIso)}

\* upsertStmt.run: INSERT ... ON CONFLICT(domain) DO UPDATE; domain is the
\* primary key
UpsertOne(rows, item, nowIso) ==
  LET old == {r \in rows : r.domain = item.domain}
      new == RowOf(item, nowIso)
  IN (rows \ old) \cup {IF old = {} THEN new ELSE Conflict(CHOOSE r \in old : TRUE, new)}

\* upsertMany(items, nowIso) with all the columns: one transaction that
\* upserts the items in order
RECURSIVE upsertManyRows(_, _, _)
upsertManyRows(rows, items, nowIso) ==
  IF items = <<>> THEN rows
  ELSE upsertManyRows(UpsertOne(rows, Head(items), nowIso), Tail(items), nowIso)

\* the upsertMany calls of the page loop, page after page
RECURSIVE upsertPages(_, _, _)
upsertPages(rows, pages, nowIso) ==
  IF pages = <<>> THEN rows
  ELSE upsertPages(upsertManyRows(rows, Head(pages), nowIso), Tail(pages), nowIso)

\* the MarketplaceDomain a query makes of a stored row
ReadBack(row) ==
  [domain |-> row.domain, tld |-> row.tld,
   available |-> IF row.available = Null THEN Null ELSE Some(row.available = Some(1)),
   price |-> row.price, currency |-> row.currency, status |-> row.status,
   raw |-> parseJsonObject(row.raw_json)]

\* a request is served only when the previous one has been answered
Answered == exchange = NoExchange

\* ensureSoindaDataLoaded has returned to the GET handler that awaits it:
\* with an empty table it waits for the run in flight
DataLoaded == catalog # {} \/ runningSync = 0

\* the page loop of a run over the pages the upstream returns: its
\* upsertMany calls
PageLoop(pages) ==
  /\ Answered
  /\ catalog' = upsertPages(catalog, pages, now)
  /\ exchange' = [kind |-> "loop", pages |-> pages, pass |-> 1, at |-> now]
  /\ UNCHANGED <<now, store, meta, runningSync, analyticsVersion, procs, lastRun, fetcher,
                 analyticsCache>>

\* the page loop of the next run over the same pages
PageLoopAgain ==
  /\ exchange.kind = "loop"
  /\ exchange.pass = 1
  /\ catalog' = upsertPages(catalog, exchange.pages, now)
  /\ exchange' = [exchange EXCEPT !.pass = 2]
  /\ UNCHANGED <<now, store, meta, runningSync, analyticsVersion, procs, lastRun, fetcher,
                 analyticsCache>>

\* a reset is served only where the version cannot pass MaxVersion, the run
\* in flight counted
CacheRoom == analyticsVersion + (IF runningSync # 0 THEN 1 ELSE 0) < MaxVersion

\* resetSoindaCatalog with all the columns
ResetCatalog ==
  /\ Answered
  /\ CacheRoom
  /\ catalog' = {}
  /\ meta' = EmptyMeta
  /\ analyticsVersion' = analyticsVersion + 1
  /\ analyticsCache' = {}
  /\ exchange' = [kind |-> "reset"]
  /\ UNCHANGED <<now, store, runningSync, procs, lastRun, fetcher>>

\* the request has its answer
Deliver ==
  /\ exchange.kind \notin {"none", "computing"}
  /\ exchange' = NoExchange
  /\ UNCHANGED <<now, store, meta, runningSync, analyticsVersion, procs, lastRun, fetcher,
                 catalog, analyticsCache>>

\* ------------------------------------------------------------ texts
Uppers ==
  <<"A", "B", "C", "D", "E", "F", "G", "H", "I", "J", "K", "L", "M",
    "N", "O", "P", "Q", "R", "S", "T", "U", "V", "W", "X", "Y", "Z">>

Lowers ==
  <<"a", "b", "c", "d", "e", "f", "g", "h", "i", "j", "k", "l", "m",
    "n", "o", "p", "q", "r", "s", "t", "u", "v", "w", "x", "y", "z">>

Digits == <<"0", "1", "2", "3", "4", "5", "6", "7", "8", "9">>

\* the characters of the texts, in code point order
Ascii == <<" ", "\"", "%", "'", "-", ".">> \o Digits \o <<";">> \o Uppers \o <<"_">> \o Lowers

CodeOf == [c \in {Ascii[i] : i \in 1..Len(Ascii)} |-> CHOOSE i \in 1..Len(Ascii) : Ascii[i] = c]

\* String.prototype.toLowerCase and LOWER(), on one character
LowerChar(c) ==
  IF \E i \in 1..Len(Uppers) : Uppers[i] = c
  THEN Lowers[CHOOSE i \in 1..Len(Uppers) : Uppers[i] = c] ELSE c

Lower(text) == [i \in 1..Len(text) |-> LowerChar(text[i])]

\* String.prototype.trim
RECURSIVE TrimStart(_)
TrimStart(text) == IF text # <<>> /\ Head(text) = " " THEN TrimStart(Tail(text)) ELSE text

RECURSIVE TrimEnd(_)
TrimEnd(text) ==
  IF text # <<>> /\ text[Len(text)] = " " THEN TrimEnd(SubSeq(text, 1, Len(text) - 1)) ELSE text

Trim(text) == TrimEnd(TrimStart(text))

\* comparison of two texts, character by character in code point order
RECURSIVE TextLeq(_, _)
TextLeq(s, u) ==
  IF s = <<>> THEN TRUE
  ELSE IF u = <<>> THEN FALSE
  ELSE IF Head(s) = Head(u) THEN TextLeq(Tail(s), Tail(u))
  ELSE CodeOf[Head(s)] < CodeOf[Head(u)]

\* text LIKE pattern: % stands for any run of characters, _ for any one
\* character
RECURSIVE Like(_, _)
Like(text, pattern) ==
  IF pattern = <<>> THEN text = <<>>
  ELSE IF Head(pattern) = "%"
       THEN Like(text, Tail(pattern)) \/ (text # <<>> /\ Like(Tail(text), pattern))
       ELSE /\ text # <<>>
            /\ Head(pattern) = "_" \/ Head(pattern) = Head(text)
            /\ Like(Tail(text), Tail(pattern))

\* the parameter `%${needle}%`
Around(needle) == <<"%">> \o needle \o <<"%">>

\* the table under page loops, replayed page loops, resets and the clock
NextStore ==
  \/ Tick
  \/ \E pages \in Loops(ItemsOf(LoopDomains)) : PageLoop(pages)
  \/ PageLoopAgain
  \/ ResetCatalog
  \/ Deliver

SpecStore == Init /\ [][NextStore]_vars

\* ------------------------------------------------------ querySoindaDomains
MaxQueryPage == 2
MaxPerPage == 2

Engines == {"sqlite", "pg"}

NoText == <<>>

\* one entry of options.columnFilters
ColumnFilter(field, value) == [field |-> field, value |-> value]

\* the filter part of the options a request may carry
Filters ==
  {[q |-> NoText, tld |-> NoText, available |-> Null, columnFilters |-> <<>>],
   [q |-> <<" ", "A", ".">>, tld |-> NoText, available |-> Null, columnFilters |-> <<>>],
   [q |-> <<"_", "o">>, tld |-> NoText, available |-> Null, columnFilters |-> <<>>],
   [q |-> NoText, tld |-> <<"N", "E", "T", " ">>, available |-> Some(FALSE), columnFilters |-> <<>>],
   [q |-> NoText, tld |-> NoText, available |-> Some(TRUE), columnFilters |-> <<>>],
   [q |-> NoText, tld |-> NoText, available |-> Null,
    columnFilters |-> <<ColumnFilter(Chars("level"), <<" ", "S", "I", "L">>), ColumnFilter(Chars("score"), <<"7">>)>>],
   [q |-> NoText, tld |-> NoText, available |-> Null,
    columnFilters |-> <<ColumnFilter(Chars("domain"), <<"b", ".">>), ColumnFilter(Chars("score"), <<" ">>)>>]}

\* the values of options.sortBy a request may carry: fixed columns, raw
\* fields, texts that are neither
SortKeys ==
  {NoText,
   <<" ">> \o Chars("price") \o <<" ">>,
   Chars("available"),
   Chars("status"),
   Chars("level"),
   <<"n", "o", "_", "1">>,
   <<" ", " ">>,
   <<"l", "e", "v", "e", "l", "\"">>}

QueryOptions ==
  {[page |-> n, perPage |-> pp, q |-> f.q, tld |-> f.tld, available |-> f.available,
    columnFilters |-> f.columnFilters, sortBy |-> k, sortDir |-> d] :
     n \in 1..MaxQueryPage, pp \in 1..MaxPerPage, f \in Filters, k \in SortKeys, d \in {"asc", "desc"}}

\* json_extract(raw_json, '$."field"') and raw_json->>'field' on the members
\* this model stores (strings and numbers): the text of the member, NULL
\* when there is none
JsonExtract(raw_json, field) ==
  LET members == parseJsonObject(raw_json)
      hits == {i \in 1..Len(members) : Chars(members[i].key) = field}
  IN IF hits = {} THEN Null ELSE Some(Chars(members[CHOOSE i \in hits : TRUE].text))

\* COALESCE(value, '')
Coalesce(value) == IF value = Null THEN NoText ELSE Val(value)

\* a nullable text column as a text
TextColumn(value) == IF value = Null THEN Null ELSE Some(Chars(Val(value)))

\* one condition of options.columnFilters
RECURSIVE ColumnFiltersMatch(_, _)
ColumnFiltersMatch(row, filters) ==
  IF filters = <<>> THEN TRUE
  ELSE LET needle == Lower(Trim(Head(filters).value))
           field == Head(filters).field
           here == IF needle = NoText THEN TRUE
                   ELSE IF field = Chars("domain") THEN Like(Lower(Chars(row.domain)), Around(needle))
                   ELSE Like(Lower(Coalesce(JsonExtract(row.raw_json, field))), Around(needle))
       IN here /\ ColumnFiltersMatch(row, Tail(filters))

\* buildFilterWhere and buildWhere: the WHERE clause on one row
Where(row, options) ==
  LET q == Lower(Trim(options.q))
      tld == Lower(Trim(options.tld))
  IN /\ q # NoText => Like(Lower(Chars(row.domain)), Around(q))
     /\ tld # NoText => Lower(Chars(row.tld)) = tld
     /\ options.available = Some(TRUE) => row.available = Some(1)
     /\ options.available = Some(FALSE) => row.available = Some(0)
     /\ ColumnFiltersMatch(row, options.columnFilters)

BaseSortable == {Chars(c) : c \in {"domain", "tld", "available", "price", "currency", "status"}}

\* the characters of [a-zA-Z0-9_]
WordChars ==
  {Uppers[i] : i \in 1..Len(Uppers)} \cup {Lowers[i] : i \in 1..Len(Lowers)}
    \cup {Digits[i] : i \in 1..Len(Digits)} \cup {"_"}

\* a test that lets every non-empty text through
IsWord_AnyText(text) == text # NoText

\* /^[a-zA-Z0-9_]+$/.test(text)
IsWord(text) == text # NoText /\ \A i \in 1..Len(text) : text[i] \in WordChars

\* requestedSort.replace(/"/g, "")
RemoveQuotes(text) == SelectSeq(text, LAMBDA c : c # "\"")

\* the ORDER BY term when the key is neither a fixed column nor a word:
\* "domain ASC" in the embedded store, `domain ${direction}` in the networked
DefaultOrder(engine, direction) ==
  [expr |-> "column", name |-> Chars("domain"), dir |-> IF engine = "sqlite" THEN "ASC" ELSE direction]

\* the ORDER BY term of querySoindaDomains; name is the text that is put
\* into the query
OrderBy(engine, options) ==
  LET direction == IF options.sortDir = "desc" THEN "DESC" ELSE "ASC"
      requestedSort == Trim(IF options.sortBy = NoText THEN Chars("domain") ELSE options.sortBy)
  IN IF requestedSort \in BaseSortable
     THEN IF requestedSort \in {Chars("available"), Chars("price")}
          THEN [expr |-> "column", name |-> requestedSort, dir |-> direction]
          ELSE [expr |-> "lower", name |-> requestedSort, dir |-> direction]
     ELSE IF IsWord(requestedSort)
          THEN [expr |-> "json",
                name |-> IF engine = "sqlite" THEN RemoveQuotes(requestedSort) ELSE requestedSort,
                dir |-> direction]
          ELSE DefaultOrder(engine, direction)

\* a value to sort by: NULL, a number or a text
NullKey == [null |-> TRUE, num |-> 0, text |-> NoText]
NumKey(n) == [null |-> FALSE, num |-> n, text |-> NoText]
TextKey(text) == [null |-> FALSE, num |-> 0, text |-> text]

\* the value of the ORDER BY expression on one row
SortValue(row, orderBy) ==
  LET col == orderBy.name
      text == IF col = Chars("domain") THEN Some(Chars(row.domain))
              ELSE IF col = Chars("tld") THEN Some(Chars(row.tld))
              ELSE IF col = Chars("currency") THEN TextColumn(row.currency)
              ELSE TextColumn(row.status)
  IN IF orderBy.expr = "json" THEN TextKey(Lower(Coalesce(JsonExtract(row.raw_json, col))))
     ELSE IF orderBy.expr = "lower" THEN TextKey(Lower(Coalesce(text)))
     ELSE IF col = Chars("available")
          THEN IF row.available = Null THEN NullKey ELSE NumKey(Val(row.available))
     ELSE IF col = Chars("price")
          THEN IF row.price = Null THEN NullKey ELSE NumKey(Val(row.price))
     ELSE TextKey(Val(text))

\* a sorts before b, or beside it, in ascending order: NULL is the lowest
\* value in the embedded store and the highest in the networked one
KeyLeq(engine, a, b) ==
  IF a.null /\ b.null THEN TRUE
  ELSE IF a.null THEN engine = "sqlite"
  ELSE IF b.null THEN engine = "pg"
  ELSE a.num < b.num \/ (a.num = b.num /\ TextLeq(a.text, b.text))

\* the orders in which ORDER BY may return the rows: rows with equal values
\* come in any order
SortedOrders(engine, rows, orderBy) ==
  {o \in [1..Cardinality(rows) -> rows] :
     /\ \A i, j \in 1..Cardinality(rows) : i # j => o[i] # o[j]
     /\ \A i, j \in 1..Cardinality(rows) :
          i < j => IF orderBy.dir = "ASC"
                   THEN KeyLeq(engine, SortValue(o[i], orderBy), SortValue(o[j], orderBy))
                   ELSE KeyLeq(engine, SortValue(o[j], orderBy), SortValue(o[i], orderBy))}

\* LIMIT perPage OFFSET offset
LimitOffset(order, perPage, offset) ==
  SubSeq(order, offset + 1, IF offset + perPage < Len(order) THEN offset + perPage ELSE Len(order))

\* collectAllFields: the keys of all the raw objects
collectAllFields(rows) ==
  UNION {{parseJsonObject(r.raw_json)[i].key : i \in 1..Len(parseJsonObject(r.raw_json))} : r \in rows}

\* what querySoindaDomains returns when ORDER BY returns the rows in the
\* given order
QueryResult(engine, rows, options, order) ==
  LET offset == (options.page - 1) * options.perPage
      total == Cardinality({r \in rows : Where(r, options)})
      page == LimitOffset(order, options.perPage, offset)
  IN [kind |-> "query", engine |-> engine, options |-> options,
      orderBy |-> OrderBy(engine, options),
      data |-> [i \in 1..Len(page) |-> ReadBack(page[i])],
      fields |-> collectAllFields(rows),
      total |-> total,
      hasMore |-> offset + options.perPage < total]

\* the results querySoindaDomains may return
QueryResults(engine, rows, options) ==
  {QueryResult(engine, rows, options, o) :
     o \in SortedOrders(engine, {r \in rows : Where(r, options)}, OrderBy(engine, options))}

\* GET /api/domains answered by querySoindaDomains of one of the stores
QueryDomains(engine, options) ==
  /\ Answered
  /\ DataLoaded
  /\ exchange' \in QueryResults(engine, catalog, options)
  /\ UNCHANGED <<now, store, meta, runningSync, analyticsVersion, procs, lastRun, fetcher,
                 catalog, analyticsCache>>

\* the page loops that fill the table for the queries: one page of at most
\* one row
QueryLoops == {<<p>> : p \in PagesUpTo(ItemsOf(CatDomains), 1)}

\* the table under page loops and the queries of both stores
NextQuery ==
  \/ \E pages \in QueryLoops : PageLoop(pages)
  \/ \E engine \in Engines, options \in QueryOptions : QueryDomains(engine, options)
  \/ Deliver

SpecQuery == Init /\ [][NextQuery]_vars

\* ---------------------------------------------------- querySoindaAnalytics
ANALYTICS_CACHE_TTL_MS == 5 * 60 * 1000

MaxCacheSteps == 3

\* the clock of the cache advances in steps of half the time to live
CacheStepMs == ANALYTICS_CACHE_TTL_MS \div 2

\* the filters an analytics request may carry; the last two differ in the
\* order and the padding of their column filters only
AnalyticsOptions ==
  {[q |-> NoText, tld |-> NoText, available |-> Null, columnFilters |-> <<>>],
   [q |-> NoText, tld |-> NoText, available |-> Null,
    columnFilters |-> <<ColumnFilter(Chars("score"), <<"7", " ">>), ColumnFilter(Chars("level"), <<" ", "s", "i", "l">>)>>],
   [q |-> NoText, tld |-> NoText, available |-> Null,
    columnFilters |-> <<ColumnFilter(Chars("level"), <<"s", "i", "l">>), ColumnFilter(Chars("score"), <<"7">>),
                        ColumnFilter(Chars("domain"), <<" ", " ">>)>>]}

\* .map(([key, value]) => [key, value.trim()]).filter(([, value]) => value.length > 0)
TrimmedFilters(filters) ==
  SelectSeq([i \in 1..Len(filters) |-> ColumnFilter(filters[i].field, Trim(filters[i].value))],
            LAMBDA f : f.value # NoText)

\* .sort(([a], [b]) => a.localeCompare(b)) on entries with distinct keys
SortedByField(filters) ==
  CHOOSE o \in [1..Len(filters) -> {filters[i] : i \in 1..Len(filters)}] :
    \A i, j \in 1..Len(filters) : i < j => o[i].field # o[j].field /\ TextLeq(o[i].field, o[j].field)

\* cacheKey: the object that is stringified
CacheKey(options) ==
  [q |-> options.q, tld |-> options.tld, available |-> options.available,
   columnFilters |-> SortedByField(TrimmedFilters(options.columnFilters))]

RECURSIVE SumOfPrices(_)
SumOfPrices(rows) ==
  IF rows = {} THEN 0
  ELSE LET r == CHOOSE x \in rows : TRUE IN Val(r.price) + SumOfPrices(rows \ {r})

\* the aggregates querySoindaAnalytics computes over the rows that match:
\* total, available, avgPrice (as sum and count), uniqueTlds and topTlds;
\* the technology and level tables are computed from the same rows
ComputeAnalytics(rows, options) ==
  LET matching == {r \in rows : Where(r, options)}
      priced == {r \in matching : r.price # Null}
      tlds == {r.tld : r \in matching}
  IN [total |-> Cardinality(matching),
      available |-> Cardinality({r \in matching : r.available = Some(1)}),
      avgPrice |-> IF priced = {} THEN Null
                   ELSE Some([sum |-> SumOfPrices(priced), count |-> Cardinality(priced)]),
      uniqueTlds |-> Cardinality(tlds),
      topTlds |-> {[label |-> l, value |-> Cardinality({r \in matching : r.tld = l})] : l \in tlds}]

\* an entry that is exactly as old as the time to live is still served
CacheFresh_Inclusive(age) == age <= ANALYTICS_CACHE_TTL_MS

\* Date.now() - cached.ts < ANALYTICS_CACHE_TTL_MS
CacheFresh(age) == age < ANALYTICS_CACHE_TTL_MS

\* an entry of analyticsCache under its key; written and crossed are not
\* part of the program: written records that the table was written after
\* the entry was set, crossed that a run ended Completed between the reading
\* of the value and the setting of the entry
CacheEntry(key, ts, version, value) ==
  [key |-> key, ts |-> ts, version |-> version, value |-> value, written |-> FALSE,
   crossed |-> FALSE]

\* no request is being answered, or one that waits for its queries
Idle == exchange.kind \in {"none", "computing"}

\* a miss that leaves its own entry as the only entry of the cache
GetAnalytics_DropsOthers(options) ==
  /\ Answered
  /\ DataLoaded
  /\ LET key == CacheKey(options)
         cached == {e \in analyticsCache : e.key = key}
         hit == \E e \in cached : e.version = analyticsVersion /\ CacheFresh(now - e.ts)
         value == ComputeAnalytics(catalog, options)
     IN IF hit
        THEN /\ exchange' = [kind |-> "analytics", options |-> options,
                             value |-> (CHOOSE e \in cached : TRUE).value, recomputed |-> FALSE]
             /\ UNCHANGED analyticsCache
        ELSE /\ exchange' = [kind |-> "analytics", options |-> options,
                             value |-> value, recomputed |-> TRUE]
             /\ analyticsCache' = {CacheEntry(key, now, analyticsVersion, value)}
  /\ UNCHANGED <<now, store, meta, runningSync, analyticsVersion, procs, lastRun, fetcher, catalog>>

\* querySoindaAnalytics of the embedded store
GetAnalytics(options) ==
  /\ Answered
  /\ DataLoaded
  /\ LET key == CacheKey(options)
         cached == {e \in analyticsCache : e.key = key}
         hit == \E e \in cached : e.version = analyticsVersion /\ CacheFresh(now - e.ts)
         value == ComputeAnalytics(catalog, options)
     IN IF hit
        THEN /\ exchange' = [kind |-> "analytics", options |-> options,
                             value |-> (CHOOSE e \in cached : TRUE).value, recomputed |-> FALSE]
             /\ UNCHANGED analyticsCache
        ELSE /\ exchange' = [kind |-> "analytics", options |-> options,
                             value |-> value, recomputed |-> TRUE]
             /\ analyticsCache' = (analyticsCache \ cached) \cup {CacheEntry(key, now, analyticsVersion, value)}
  /\ UNCHANGED <<now, store, meta, runningSync, analyticsVersion, procs, lastRun, fetcher, catalog>>

\* GET /api/domains/sync: getSoindaSyncStatus, answered at once
GetSyncStatus ==
  /\ Answered
  /\ exchange' = [kind |-> "status", status |-> getSoindaSyncStatus,
                  rows |-> Cardinality(catalog)]
  /\ UNCHANGED <<now, store, meta, runningSync, analyticsVersion, procs, lastRun, fetcher,
                 catalog, analyticsCache>>

\* time passes, half a time to live at once
Elapse ==
  /\ Idle
  /\ now < TickMs + MaxCacheSteps * CacheStepMs
  /\ now' = now + CacheStepMs
  /\ UNCHANGED <<store, meta, runningSync, analyticsVersion, procs, lastRun, fetcher, storeVars>>

\* a run starts: the handle is set
RunBegins ==
  /\ Idle
  /\ runningSync = 0
  /\ analyticsVersion < MaxVersion
  /\ runningSync' = 1
  /\ lastRun' = NoRun
  /\ UNCHANGED <<now, store, meta, analyticsVersion, procs, fetcher, storeVars>>

\* one iteration of the page loop, as the table and the cache see it:
\* upsertMany(current.data, nowIso) and nothing for the cache
RunPage(items) ==
  /\ Idle
  /\ runningSync # 0
  /\ catalog' = upsertManyRows(catalog, items, now)
  /\ analyticsCache' = {[e EXCEPT !.written = @ \/ items # <<>>] : e \in analyticsCache}
  /\ UNCHANGED <<now, store, meta, runningSync, analyticsVersion, procs, lastRun, fetcher, exchange>>

\* the run body ends, Completed or Interrupted, as the table and the cache
\* see it: analyticsVersion += 1; analyticsCache.clear(); the handle is
\* cleared
RunEnds(outcome) ==
  /\ Idle
  /\ runningSync # 0
  /\ analyticsVersion' = analyticsVersion + 1
  /\ analyticsCache' = {}
  /\ runningSync' = 0
  /\ lastRun' = [NoRun EXCEPT !.outcome = outcome]
  /\ exchange' = IF exchange.kind = "computing" /\ outcome = "Completed"
                 THEN [exchange EXCEPT !.crossed = TRUE] ELSE exchange
  /\ UNCHANGED <<now, store, meta, procs, fetcher, catalog>>

\* a failing run takes the rows of the table with it
RunFails_ClearsTable ==
  /\ Idle
  /\ runningSync # 0
  /\ runningSync' = 0
  /\ catalog' = {}
  /\ lastRun' = [NoRun EXCEPT !.outcome = "Failed"]
  /\ UNCHANGED <<now, store, meta, analyticsVersion, procs, fetcher, analyticsCache, exchange>>

\* a fetch rejects and the run ends Failed, as the table and the cache see
\* it: the handle is cleared
RunFails ==
  /\ Idle
  /\ runningSync # 0
  /\ runningSync' = 0
  /\ lastRun' = [NoRun EXCEPT !.outcome = "Failed"]
  /\ UNCHANGED <<now, store, meta, analyticsVersion, procs, fetcher, storeVars>>

\* the domain the runs of the cache specification ingest
CacheDomains == {"a.com"}

\* the domain queries served between the analytics requests
CacheQueries ==
  {o \in QueryOptions : o.page = 1 /\ o.perPage = 1 /\ o.q = NoText /\ o.tld = NoText
                        /\ o.available = Null /\ o.columnFilters = <<>> /\ o.sortBy = NoText}

\* the table, the cache version and the cache under runs, resets, queries
\* and analytics requests
NextCache ==
  \/ Elapse
  \/ RunBegins
  \/ \E items \in PagesUpTo(ItemsOf(CacheDomains), 1) : RunPage(items)
  \/ \E outcome \in {"Completed", "Interrupted"} : RunEnds(outcome)
  \/ RunFails
  \/ ResetCatalog
  \/ \E options \in AnalyticsOptions : GetAnalytics(options)
  \/ \E options \in CacheQueries : QueryDomains("sqlite", options)
  \/ GetSyncStatus
  \/ Deliver

SpecCache == Init /\ [][NextCache]_vars

\* querySoindaAnalytics of the networked store up to the answers of its
\* queries: the cache is looked up, and on a miss the queries are sent and
\* read the table
PgAnalyticsReads(options) ==
  /\ Answered
  /\ DataLoaded
  /\ LET cached == {e \in analyticsCache : e.key = CacheKey(options)}
         hit == \E e \in cached : e.version = analyticsVersion /\ CacheFresh(now - e.ts)
     IN exchange' = IF hit
                    THEN [kind |-> "analytics", options |-> options,
                          value |-> (CHOOSE e \in cached : TRUE).value, recomputed |-> FALSE,
                          crossed |-> (CHOOSE e \in cached : TRUE).crossed]
                    ELSE [kind |-> "computing", options |-> options,
                          value |-> ComputeAnalytics(catalog, options), recomputed |-> TRUE,
                          crossed |-> FALSE]
  /\ UNCHANGED <<now, store, meta, runningSync, analyticsVersion, procs, lastRun, fetcher,
                 catalog, analyticsCache>>

\* querySoindaAnalytics of the networked store after its queries have
\* answered: analyticsCache.set(cacheKey, {ts: Date.now(), version:
\* analyticsVersion, value}) with the version of that moment, and the value
\* is returned
PgAnalyticsSets ==
  /\ exchange.kind = "computing"
  /\ analyticsCache' =
       {e \in analyticsCache : e.key # CacheKey(exchange.options)}
         \cup {[CacheEntry(CacheKey(exchange.options), now, analyticsVersion, exchange.value)
                  EXCEPT !.crossed = exchange.crossed]}
  /\ exchange' = [exchange EXCEPT !.kind = "analytics"]
  /\ UNCHANGED <<now, store, meta, runningSync, analyticsVersion, procs, lastRun, fetcher, catalog>>

\* the table, the cache version and the cache of the networked store: runs
\* go on while an analytics request waits for its queries
NextCachePg ==
  \/ Elapse
  \/ RunBegins
  \/ \E items \in PagesUpTo(ItemsOf(CacheDomains), 1) : RunPage(items)
  \/ \E outcome \in {"Completed", "Interrupted"} : RunEnds(outcome)
  \/ RunFails
  \/ ResetCatalog
  \/ \E options \in AnalyticsOptions : PgAnalyticsReads(options)
  \/ PgAnalyticsSets
  \/ Deliver

SpecCachePg == Init /\ [][NextCachePg]_vars

\* ------------------------------------- a pass over a stable upstream
\* the numbers of pages of the stable upstreams
PassSizes == {1, 2, SYNC_MAX_PAGES_PER_RUN - 1, SYNC_MAX_PAGES_PER_RUN, SYNC_MAX_PAGES_PER_RUN + 1,
              SYNC_MAX_PAGES_PER_RUN + 2, MaxPage - 1, MaxPage}

\* the domain of the one normalizable row of a page: the first page, the
\* first page behind the budget and the last page bring their own domain
PassDomain(n, page) ==
  IF page = n THEN "c.org" ELSE IF page = SYNC_MAX_PAGES_PER_RUN + 1 THEN "b.net" ELSE "a.com"

\* the normalized rows of a page of a stable upstream of n pages; the
\* pages whose number is a multiple of seven have no normalizable row
PassItems(n, page) ==
  IF page % 7 = 0 /\ page # n THEN <<>>
  ELSE <<CHOOSE item \in ItemsOf({PassDomain(n, page)}) : item.price = Some(10)>>

\* what fetchExternalDomainsPage resolves to on a stable upstream of n
\* pages: every page reports the same total, every page but the last is
\* full
StablePage(n, page) ==
  [data |-> IF PassItems(n, page) = <<>> THEN <<>> ELSE <<[domain |-> "a.com", ts |-> MaxTs]>>,
   sourceCount |-> IF page < n THEN PAGE_SIZE_SYNC ELSE ShortCount,
   total |-> Some((n - 1) * PAGE_SIZE_SYNC + ShortCount)]

\* the pass is being followed and has not ended Completed
PassOpen ==
  /\ exchange.kind = "pass"
  /\ \A i \in 1..Len(exchange.runs) : exchange.runs[i] # "Completed"

\* the upstream holds n pages from now on; what is remembered of the pass
\* is not part of the program: the pages fetched, in order, and the
\* outcomes of the runs, in order
PassBegins(n) ==
  /\ exchange = NoExchange
  /\ exchange' = [kind |-> "pass", pages |-> n, fetched |-> <<>>, runs |-> <<>>]
  /\ UNCHANGED <<now, store, meta, runningSync, analyticsVersion, procs, lastRun, fetcher,
                 catalog, analyticsCache>>

\* a trigger that is not forced by its caller: POST /api/domains/sync
\* with an empty body, or a domains or analytics request
PassTrigger(c) ==
  /\ PassOpen
  /\ PostSync(c, FALSE, FALSE) \/ ensureSoindaDataLoaded(c)

\* fetchExternalDomainsPage resolves with the page of the stable upstream
\* and the loop runs to its next await: upsertMany writes the rows of the
\* page into the table
PassFetchReturn(c) ==
  /\ PassOpen
  /\ NoneDone
  /\ procs[c].pc = "fetch"
  /\ procs[c].page <= exchange.pages
  /\ LET st == PageStep(meta, store, procs[c], StablePage(exchange.pages, procs[c].page), now)
     IN /\ meta' = st.meta
        /\ store' = st.store
        /\ analyticsVersion' = IF st.ended THEN analyticsVersion + 1 ELSE analyticsVersion
        /\ procs' = [procs EXCEPT ![c] = st.proc]
        /\ lastRun' = IF st.ended THEN RunRecord(st.proc) ELSE lastRun
        /\ analyticsCache' = IF st.ended THEN {} ELSE analyticsCache
        /\ exchange' = [exchange EXCEPT !.fetched = Append(@, procs[c].page),
                                        !.runs = IF st.ended THEN Append(@, st.proc.outcome) ELSE @]
  /\ catalog' = upsertManyRows(catalog, PassItems(exchange.pages, procs[c].page), now)
  /\ UNCHANGED <<now, runningSync, fetcher>>

\* the runs that triggers start over a stable upstream, up to the run that
\* ends Completed
NextPass ==
  \/ \E n \in PassSizes : PassBegins(n)
  \/ \E c \in ProcIds : PassTrigger(c)
  \/ \E c \in ProcIds : PassFetchReturn(c)
  \/ \E c \in ProcIds : InterPageDelay(c)
  \/ \E c \in ProcIds : Finally(c)
  \/ \E c \in ProcIds : Respond(c)

SpecPass == Init /\ [][NextPass]_vars

\* ------------------------------------------ rows of an upstream payload
\* the values of a parsed JSON payload: t is the JSON type, text the
\* characters of a string, num a number or a boolean, items the elements of
\* an array or the values of an object, keys the keys of an object in the
\* order of its values
JNull == [t |-> "null", text |-> <<>>, num |-> 0, keys |-> <<>>, items |-> <<>>]

\* the value of a member an object does not have
JUndefined == [JNull EXCEPT !.t = "undefined"]

JBoolean(b) == [JNull EXCEPT !.t = "boolean", !.num = IF b THEN 1 ELSE 0]

\* a number, kept in hundredths
JNum(hundredths) == [JNull EXCEPT !.t = "number", !.num = hundredths]

JNumber == JNum(100)

JString(text) == [JNull EXCEPT !.t = "string", !.text = text]

JArray(items) == [JNull EXCEPT !.t = "array", !.items = items]

JObject(keys, values) == [JNull EXCEPT !.t = "object", !.keys = keys, !.items = values]

\* String.prototype.includes
IncludesText(text, needle) ==
  \E i \in 1..(Len(text) - Len(needle) + 1) : SubSeq(text, i, i + Len(needle) - 1) = needle

LowerLetters == {Lowers[i] : i \in 1..Len(Lowers)}

LowerAlnums == LowerLetters \cup {Digits[i] : i \in 1..Len(Digits)}

\* [a-z0-9](?:[a-z0-9-]{0,61}[a-z0-9])? on a lower-cased text
IsLabel(text) ==
  /\ Len(text) >= 1 /\ Len(text) <= 63
  /\ text[1] \in LowerAlnums /\ text[Len(text)] \in LowerAlnums
  /\ \A i \in 1..Len(text) : text[i] \in LowerAlnums \cup {"-"}

\* the whole of a lower-cased text matches ([label]\.)+[a-z]{2,}
IsDomainShaped(text) ==
  LET parts == Labels(text)
  IN /\ Len(parts) >= 2
     /\ \A i \in 1..(Len(parts) - 1) : IsLabel(parts[i])
     /\ Len(parts[Len(parts)]) >= 2
     /\ \A i \in 1..Len(parts[Len(parts)]) : parts[Len(parts)][i] \in LowerLetters

\* \b before position i resp. behind position j of a text
WordBoundaryBefore(text, i) == i = 1 \/ text[i - 1] \notin LowerAlnums \cup {"_"}

WordBoundaryBehind(text, j) == j = Len(text) \/ text[j + 1] \notin LowerAlnums \cup {"_"}

\* the matches of DOMAIN_REGEX in a lower-cased text, as <<first, last>>
DomainMatches(text) ==
  {m \in (1..Len(text)) \X (1..Len(text)) :
     /\ m[1] <= m[2]
     /\ WordBoundaryBefore(text, m[1]) /\ WordBoundaryBehind(text, m[2])
     /\ IsDomainShaped(SubSeq(text, m[1], m[2]))}

\* value.toLowerCase().match(DOMAIN_REGEX)?.[0] ?? null: the leftmost match,
\* and of those the one the greedy quantifiers reach, the longest
findDomainInText(value) ==
  LET text == Lower(value)
      found == DomainMatches(text)
  IN IF found = {} THEN Null
     ELSE LET m == CHOOSE x \in found :
                     \A y \in found : x[1] < y[1] \/ (x[1] = y[1] /\ x[2] >= y[2])
          IN Some(SubSeq(text, m[1], m[2]))

\* Object.keys and Object.values of asRecord(item): the members of an
\* object, the indices and elements of an array, nothing for anything else
RecordKeys(item) ==
  IF item.t = "object" THEN item.keys
  ELSE IF item.t = "array" THEN [i \in 1..Len(item.items) |-> <<Digits[i]>>]
  ELSE <<>>

RecordValues(item) == IF item.t \in {"object", "array"} THEN item.items ELSE <<>>

KEY_DOMAIN == <<"d", "o", "m", "a", "i", "n">>

KEY_DOMINIO == <<"d", "o", "m", "i", "n", "i", "o">>

KEY_HOST == <<"h", "o", "s", "t">>

HasDomainKey(item) ==
  \E i \in 1..Len(RecordKeys(item)) :
    LET key == Lower(RecordKeys(item)[i])
    IN \/ IncludesText(key, KEY_DOMAIN) \/ IncludesText(key, KEY_DOMINIO)
       \/ IncludesText(key, KEY_HOST)

HasDomainValue(item) ==
  \E i \in 1..Len(RecordValues(item)) :
    /\ RecordValues(item)[i].t = "string"
    /\ findDomainInText(RecordValues(item)[i].text) # Null

\* what one element adds to the score of its array
ItemScore(item) ==
  IF item.t = "string" /\ findDomainInText(item.text) # Null THEN 2
  ELSE IF RecordKeys(item) = <<>> THEN 0
  ELSE (IF HasDomainKey(item) THEN 3 ELSE 0) + (IF HasDomainValue(item) THEN 1 ELSE 0)

RECURSIVE scoreArray(_)
scoreArray(items) ==
  IF items = <<>> THEN 0 ELSE ItemScore(Head(items)) + scoreArray(Tail(items))

\* the depth beyond which collectArrays returns nothing
COLLECT_MAX_DEPTH == 5

\* the arrays of a payload in the order they are met
RECURSIVE collectArrays(_, _)
collectArrays(payload, depth) ==
  IF depth > COLLECT_MAX_DEPTH \/ payload.t = "null" THEN <<>>
  ELSE IF payload.t = "array" THEN <<payload.items>>
  ELSE IF payload.t # "object" THEN <<>>
  ELSE IF payload.items = <<>> THEN <<>>
  ELSE collectArrays(Head(payload.items), depth + 1)
         \o collectArrays([payload EXCEPT !.keys = Tail(@), !.items = Tail(@)], depth)

\* the comparison of the sort: a negative number puts a before b
RankBefore(a, b) ==
  scoreArray(a) > scoreArray(b) \/ (scoreArray(a) = scoreArray(b) /\ Len(a) > Len(b))

\* arrays.map(...).sort(...)[0].items: the sort is stable, so of the arrays
\* that no other array precedes, the first in collection order comes first
extractRows(payload) ==
  LET arrays == collectArrays(payload, 0)
  IN IF arrays = <<>> THEN <<>>
     ELSE LET first == CHOOSE i \in 1..Len(arrays) :
                         /\ \A k \in 1..Len(arrays) : ~RankBefore(arrays[k], arrays[i])
                         /\ \A k \in 1..(i - 1) : RankBefore(arrays[i], arrays[k])
          IN arrays[first]

\* item[key]
Field(item, key) ==
  IF item.t = "object" /\ \E i \in 1..Len(item.keys) : item.keys[i] = key
  THEN item.items[CHOOSE i \in 1..Len(item.keys) :
                    item.keys[i] = key /\ \A k \in 1..(i - 1) : item.keys[k] # key]
  ELSE JUndefined

\* item.a ?? item.b ?? ...: the first member that is neither null nor
\* undefined
RECURSIVE FirstPresent(_, _)
FirstPresent(item, aliases) ==
  IF aliases = <<>> THEN JUndefined
  ELSE IF Field(item, Head(aliases)).t \notin {"null", "undefined"} THEN Field(item, Head(aliases))
  ELSE FirstPresent(item, Tail(aliases))

DOMAIN_CANDIDATES ==
  <<<<"d", "o", "m", "a", "i", "n">>, <<"d", "o", "m", "i", "n", "i", "o">>, <<"d", "o", "m", "a", "i", "n", "_", "n", "a", "m", "e">>, <<"n", "o", "m", "b", "r", "e", "_", "d", "o", "m", "i", "n", "i", "o">>, <<"n", "a", "m", "e">>, <<"h", "o", "s", "t", "n", "a", "m", "e">>, <<"h", "o", "s", "t">>,
    <<"f", "q", "d", "n">>, <<"u", "r", "l">>, <<"w", "e", "b", "s", "i", "t", "e">>, <<"c", "o", "m", "_", "d", "o", "m", "a", "i", "n">>>>

AVAILABLE_ALIASES ==
  <<<<"a", "v", "a", "i", "l", "a", "b", "l", "e">>, <<"i", "s", "_", "a", "v", "a", "i", "l", "a", "b", "l", "e">>, <<"i", "s", "A", "v", "a", "i", "l", "a", "b", "l", "e">>, <<"c", "o", "m", "_", "a", "v", "a", "i", "l", "a", "b", "l", "e">>, <<"d", "i", "s", "p", "o", "n", "i", "b", "l", "e">>, <<"l", "i", "b", "r", "e">>,
    <<"d", "i", "s", "p", "o", "n", "i", "b", "i", "l", "i", "d", "a", "d">>>>

PRICE_ALIASES ==
  <<<<"p", "r", "i", "c", "e">>, <<"c", "o", "m", "_", "p", "r", "i", "c", "e">>, <<"a", "m", "o", "u", "n", "t">>, <<"p", "r", "e", "c", "i", "o">>, <<"r", "e", "g", "i", "s", "t", "r", "a", "t", "i", "o", "n", "_", "p", "r", "i", "c", "e">>, <<"r", "e", "g", "i", "s", "t", "r", "a", "t", "i", "o", "n", "P", "r", "i", "c", "e">>,
    <<"s", "a", "l", "e", "_", "p", "r", "i", "c", "e">>, <<"s", "a", "l", "e", "P", "r", "i", "c", "e">>>>

CURRENCY_ALIASES == <<<<"c", "u", "r", "r", "e", "n", "c", "y">>, <<"c", "u", "r", "r", "e", "n", "c", "y", "C", "o", "d", "e">>, <<"c", "u", "r", "r", "e", "n", "c", "y", "_", "c", "o", "d", "e">>, <<"m", "o", "n", "e", "d", "a">>>>

STATUS_ALIASES == <<<<"s", "t", "a", "t", "u", "s">>, <<"s", "t", "a", "t", "e">>, <<"p", "r", "i", "c", "i", "n", "g", "M", "o", "d", "e">>, <<"e", "s", "t", "a", "d", "o">>, <<"a", "v", "a", "i", "l", "a", "b", "i", "l", "i", "t", "y", "_", "s", "t", "a", "t", "u", "s">>>>

\* the fifth of the true tokens as the source file spells it: s, U+221A,
\* U+2260
TRUE_TOKENS ==
  {<<"t", "r", "u", "e">>, <<"1">>, <<"y", "e", "s">>, <<"s", "i">>, <<"s", "U+221A", "U+2260">>, <<"a", "v", "a", "i", "l", "a", "b", "l", "e">>, <<"l", "i", "b", "r", "e">>}

FALSE_TOKENS == {<<"f", "a", "l", "s", "e">>, <<"0">>, <<"n", "o">>, <<"o", "c", "c", "u", "p", "i", "e", "d">>, <<"o", "c", "u", "p", "a", "d", "o">>, <<"t", "a", "k", "e", "n">>}

\* findDomainInText(value) ?? value.trim().toLowerCase()
DomainOrText(text) ==
  IF findDomainInText(text) # Null THEN Val(findDomainInText(text)) ELSE Lower(Trim(text))

\* the first loop of extractDomainField, over the candidates in their order
RECURSIVE CandidateDomain(_, _)
CandidateDomain(item, candidates) ==
  IF candidates = <<>> THEN Null
  ELSE LET value == Field(item, Head(candidates))
       IN IF value.t = "string" /\ IncludesText(DomainOrText(value.text), <<".">>)
          THEN Some(DomainOrText(value.text))
          ELSE CandidateDomain(item, Tail(candidates))

\* the second loop: the first string value with a domain in it
RECURSIVE ScannedDomain(_)
ScannedDomain(values) ==
  IF values = <<>> THEN Null
  ELSE IF Head(values).t = "string" /\ findDomainInText(Head(values).text) # Null
  THEN findDomainInText(Head(values).text)
  ELSE ScannedDomain(Tail(values))

extractDomainField(item) ==
  IF CandidateDomain(item, DOMAIN_CANDIDATES) # Null THEN CandidateDomain(item, DOMAIN_CANDIDATES)
  ELSE ScannedDomain(RecordValues(item))

DigitSet == {Digits[i] : i \in 1..Len(Digits)}

RECURSIVE DigitsValue(_)
DigitsValue(ds) ==
  IF ds = <<>> THEN 0
  ELSE 10 * DigitsValue(SubSeq(ds, 1, Len(ds) - 1))
         + (CHOOSE i \in 1..Len(Digits) : Digits[i] = ds[Len(ds)]) - 1

\* Number(text), in hundredths: blank text is 0, a decimal numeral with an
\* optional sign is its value (digits behind the second decimal are left
\* out), any other text is NaN, here Null; texts with an exponent, a radix
\* prefix or Infinity are not among the inputs
NumberOf(text) ==
  LET t == Trim(text)
      u == IF t # <<>> /\ t[1] \in {"-", "+"} THEN Tail(t) ELSE t
      parts == Labels(u)
      frac == IF Len(parts) = 2 THEN parts[2] ELSE <<>>
  IN IF t = <<>> THEN Some(0)
     ELSE IF \/ Len(parts) > 2
             \/ \E i \in 1..Len(u) : u[i] \notin DigitSet \cup {"."}
             \/ \A i \in 1..Len(u) : u[i] \notin DigitSet
     THEN Null
     ELSE LET hundredths == 100 * DigitsValue(parts[1])
                              + DigitsValue(SubSeq(frac \o <<"0", "0">>, 1, 2))
          IN Some(IF t[1] = "-" THEN 0 - hundredths ELSE hundredths)

\* the text as it is, commas kept
ReplaceComma_Kept(text) == text

\* value.replace(",", "."): the first comma becomes a point
ReplaceComma(text) ==
  IF \A i \in 1..Len(text) : text[i] # "," THEN text
  ELSE [text EXCEPT ![CHOOSE i \in 1..Len(text) :
                        text[i] = "," /\ \A k \in 1..(i - 1) : text[k] # ","] = "."]

coerceNumber(value) ==
  IF value.t = "number" THEN Some(value.num)
  ELSE IF value.t = "string" THEN NumberOf(ReplaceComma(value.text))
  ELSE Null

coerceBoolean(value) ==
  IF value.t = "boolean" THEN Some(value.num = 1)
  ELSE IF value.t = "number" THEN Some(value.num > 0)
  ELSE IF value.t = "string" /\ Lower(Trim(value.text)) \in TRUE_TOKENS THEN Some(TRUE)
  ELSE IF value.t = "string" /\ Lower(Trim(value.text)) \in FALSE_TOKENS THEN Some(FALSE)
  ELSE Null

\* typeof raw === "string" ? raw : null
StringOrNull(value) == IF value.t = "string" THEN Some(value.text) ELSE Null

\* parts[parts.length - 1] of domain.split(".")
LastLabel(domain) == Labels(domain)[Len(Labels(domain))]

normalizeDomain(row) ==
  IF row.t = "string"
  THEN IF ~IncludesText(DomainOrText(row.text), <<".">>) THEN Null
       ELSE Some([domain |-> DomainOrText(row.text), tld |-> LastLabel(DomainOrText(row.text)),
                  available |-> Null, price |-> Null, currency |-> Null, status |-> Null,
                  raw |-> JObject(<<<<"v", "a", "l", "u", "e">>>>, <<row>>)])
  ELSE IF extractDomainField(row) = Null THEN Null
  ELSE LET domain == Lower(Trim(Val(extractDomainField(row))))
       IN Some([domain |-> domain, tld |-> LastLabel(domain),
                available |-> coerceBoolean(FirstPresent(row, AVAILABLE_ALIASES)),
                price |-> coerceNumber(FirstPresent(row, PRICE_ALIASES)),
                currency |-> StringOrNull(FirstPresent(row, CURRENCY_ALIASES)),
                status |-> StringOrNull(FirstPresent(row, STATUS_ALIASES)),
                raw |-> row])

\* rows.map(normalizeDomain)
NormalizedRows(rows) == [i \in 1..Len(rows) |-> normalizeDomain(rows[i])]

\* .filter(Boolean): the rows without a domain are left out
RECURSIVE FilterBoolean(_)
FilterBoolean(records) ==
  IF records = <<>> THEN <<>>
  ELSE (IF Head(records) = Null THEN <<>> ELSE <<Val(Head(records))>>)
         \o FilterBoolean(Tail(records))

\* a member of an object row
Pair(key, value) == [key |-> key, value |-> value]

ObjectOf(pairs) ==
  JObject([i \in 1..Len(pairs) |-> pairs[i].key], [i \in 1..Len(pairs) |-> pairs[i].value])

\* the members of a row that may name its domain: a candidate field in
\* capitals; a candidate of lower priority ahead of one of higher priority;
\* a candidate without a point ahead of one with a domain; a domain only in
\* a field that is no candidate; no domain at all; a dotted text that is no
\* domain name
DomainMembers ==
  {<<Pair(<<"d", "o", "m", "a", "i", "n", "_", "n", "a", "m", "e">>, JString(<<"E", "x", "a", "m", "p", "l", "e", ".", "C", "O", "M">>))>>,
   <<Pair(<<"n", "a", "m", "e">>, JString(<<"V", "i", "s", "i", "t", " ", "A", ".", "c", "o", "m", " ", "n", "o", "w">>)), Pair(<<"d", "o", "m", "a", "i", "n">>, JString(<<"b", ".", "n", "e", "t">>))>>,
   <<Pair(<<"u", "r", "l">>, JString(<<"n", "/", "a">>)), Pair(<<"w", "e", "b", "s", "i", "t", "e">>, JString(<<"h", "t", "t", "p", ":", "/", "/", "a", ".", "c", "o", "m", "/", "x">>))>>,
   <<Pair(<<"i", "d">>, JNum(700)), Pair(<<"n", "o", "t", "e">>, JString(<<"s", "e", "e", " ", "a", ".", "c", "o", "m">>))>>,
   <<Pair(<<"d", "o", "m", "a", "i", "n">>, JNum(700)), Pair(<<"t", "i", "t", "l", "e">>, JString(<<"n", "o", "n", "e">>))>>,
   <<Pair(<<"h", "o", "s", "t">>, JString(<<" ", "L", "O", "C", "A", "L", "H", "O", "S", "T", ".", "x", " ">>))>>}

\* the members that may tell whether it is available
AvailableMembers ==
  {<<>>,
   <<Pair(<<"d", "i", "s", "p", "o", "n", "i", "b", "l", "e">>, JString(<<"s", "i">>))>>,
   <<Pair(<<"a", "v", "a", "i", "l", "a", "b", "l", "e">>, JNull), Pair(<<"i", "s", "_", "a", "v", "a", "i", "l", "a", "b", "l", "e">>, JString(<<"N", "o">>))>>,
   <<Pair(<<"l", "i", "b", "r", "e">>, JString(<<"t", "r", "u", "e">>)), Pair(<<"a", "v", "a", "i", "l", "a", "b", "l", "e">>, JString(<<"m", "a", "y", "b", "e">>))>>,
   <<Pair(<<"a", "v", "a", "i", "l", "a", "b", "l", "e">>, JNum(0))>>,
   <<Pair(<<"i", "s", "A", "v", "a", "i", "l", "a", "b", "l", "e">>, JBoolean(TRUE))>>,
   <<Pair(<<"d", "i", "s", "p", "o", "n", "i", "b", "l", "e">>, JString(<<" ", "L", "I", "B", "R", "E", " ">>))>>,
   <<Pair(<<"d", "i", "s", "p", "o", "n", "i", "b", "l", "e">>, JString(<<"s", "U+00ED">>))>>}

\* the members that may give its price
PriceMembers ==
  {<<>>,
   <<Pair(<<"p", "r", "e", "c", "i", "o">>, JString(<<"1", "2", ",", "5", "0">>))>>,
   <<Pair(<<"p", "r", "i", "c", "e">>, JNull), Pair(<<"a", "m", "o", "u", "n", "t">>, JString(<<"7">>))>>,
   <<Pair(<<"p", "r", "e", "c", "i", "o">>, JString(<<"3">>)), Pair(<<"p", "r", "i", "c", "e">>, JString(<<"a", "b", "c">>))>>,
   <<Pair(<<"p", "r", "i", "c", "e">>, JNum(1999))>>,
   <<Pair(<<"p", "r", "i", "c", "e">>, JString(<<"1", ",", "2", "3", "4", ",", "5", "0">>))>>,
   <<Pair(<<"p", "r", "i", "c", "e">>, JString(<<>>))>>}

ObjectRows ==
  {ObjectOf(d \o a \o p) : d \in DomainMembers, a \in AvailableMembers, p \in PriceMembers}

StringRows == {JString(<<"A", ".", "c", "o", "m">>), JString(<<"s", "e", "e", " ", "h", "t", "t", "p", ":", "/", "/", "b", ".", "n", "e", "t", "/", "x">>), JString(<<"n", "/", "a">>), JString(<<" ", "F", "o", "o", ".", "B", " ">>)}

\* the elements the arrays of a payload are made of: two strings, with and
\* without a domain name, and four objects that score 4, 3, 1 and 0
ElemDomain == JString(<<"a", ".", "c", "o", "m">>)

ElemPlain == JString(<<"n", "/", "a">>)

RowKeyed == JObject(<<<<"D", "o", "m", "a", "i", "n", "_", "N", "a", "m", "e">>>>, <<JString(<<"b", ".", "n", "e", "t">>)>>)

RowHost == JObject(<<<<"h", "o", "s", "t", "n", "a", "m", "e">>>>, <<JNumber>>)

RowValued == JObject(<<<<"n", "a", "m", "e">>>>, <<JString(<<"s", "e", "e", " ", "a", ".", "c", "o", "m">>)>>)

RowBare == JObject(<<<<"i", "d">>>>, <<JNumber>>)

RowElems == {ElemDomain, ElemPlain, RowKeyed, RowHost, RowValued, RowBare}

\* the longest array of a payload
MaxRows == 2

SeqsUpTo(S, n) == UNION {[1..k -> S] : k \in 0..n}

RowArrays == SeqsUpTo(RowElems, MaxRows)

SiblingArrays == SeqsUpTo({ElemDomain, RowBare}, MaxRows)

\* the deepest nesting of objects around an array
MaxWrap == 6

\* value inside k objects
RECURSIVE Wrapped(_, _)
Wrapped(value, k) ==
  IF k = 0 THEN value ELSE JObject(<<<<"d", "a", "t", "a">>>>, <<Wrapped(value, k - 1)>>)

\* the payloads of the upstream: a bare array; two sibling arrays in one
\* object; an array under a member of an element of another array, and as
\* an element of another array; an array below 0..MaxWrap objects beside a
\* shallow one; payloads without an array; an array of one object row or of
\* two string rows
RowPayloads ==
  {JArray(a) : a \in RowArrays}
    \cup {JArray(<<row>>) : row \in ObjectRows}
    \cup {JArray(<<row, other>>) : row, other \in StringRows}
    \cup {JObject(<<<<"d", "a", "t", "a">>, <<"i", "t", "e", "m", "s">>>>, <<JArray(a), JArray(b)>>) : a, b \in SiblingArrays}
    \cup {JArray(<<JObject(<<<<"m", "e", "t", "a">>, <<"i", "t", "e", "m", "s">>>>, <<JNumber, JArray(a)>>)>>) : a \in SiblingArrays}
    \cup {JObject(<<<<"d", "a", "t", "a">>>>, <<JArray(<<JArray(a)>>)>>) : a \in SiblingArrays}
    \cup {JObject(<<<<"d", "e", "e", "p">>, <<"l", "i", "s", "t">>>>, <<Wrapped(JArray(<<ElemDomain>>), k), JArray(a)>>) :
            k \in 0..MaxWrap, a \in {<<>>, <<ElemPlain>>, <<RowBare, RowBare>>}}
    \cup {JNull, JNumber, ElemDomain, JObject(<<<<"t", "o", "t", "a", "l">>>>, <<JNumber>>)}

\* fetchExternalDomainsPage has the payload of a page, picks its rows and
\* normalizes them
ParsePayload(payload) ==
  /\ exchange.kind = "none"
  /\ LET rows == extractRows(payload)
         records == NormalizedRows(rows)
     IN exchange' = [kind |-> "rows", payload |-> payload, rows |-> rows, records |-> records,
                     data |-> FilterBoolean(records), sourceCount |-> Len(rows)]
  /\ UNCHANGED <<now, store, meta, runningSync, analyticsVersion, procs, lastRun, fetcher,
                 catalog, analyticsCache>>

\* the page is handed to the caller
PageReturned ==
  /\ exchange.kind = "rows"
  /\ exchange' = NoExchange
  /\ UNCHANGED <<now, store, meta, runningSync, analyticsVersion, procs, lastRun, fetcher,
                 catalog, analyticsCache>>

NextRows ==
  \/ \E payload \in RowPayloads : ParsePayload(payload)
  \/ PageReturned

SpecRows == Init /\ [][NextRows]_vars

\* ------------------------------------------------------------- claims
Started(c) == procs[c].pc = "free" /\ IsRun(procs'[c])

Ends(c, outcome) == procs[c].pc = "fetch" /\ procs'[c].pc # "fetch" /\ procs'[c].outcome = outcome

\* the state a call sees after the reset its own request asked for
SeenMeta(c) == IF procs'[c].reset THEN EmptyMeta ELSE meta

SeenStore(c) == IF procs'[c].reset THEN EmptyStore ELSE store

\* C1: embedded store: at most one run is Running at any time, and it is the
\* run the handle runningSync refers to, so no second run starts while the
\* handle is set.
C1_AtMostOneRun ==
  /\ Cardinality({c \in ProcIds : IsRun(procs[c])}) <= 1
  /\ \A c \in ProcIds : IsRun(procs[c]) => runningSync = c

\* a run is in flight and a second trigger is attached to it
C1_Witness ==
  \E c, k \in ProcIds : IsRun(procs[c]) /\ procs[k].pc = "joined" /\ procs[k].joined = c

\* C2: networked store: at most one run is Running at any time, and
\* isSyncing (runningSync set) is false only when no run is executing.
C2_OneRunPg ==
  /\ Cardinality({c \in ProcIds : IsRun(procs[c])}) <= 1
  /\ runningSync = 0 => \A c \in ProcIds : ~IsRun(procs[c])

C4_EveryNonForcedTriggerGuarded ==
  [][\A c \in ProcIds :
       (Started(c) /\ ~procs'[c].force)
       => canSyncNow(SeenMeta(c), now) /\ isSyncDue(SeenMeta(c), now)]_vars

\* C4 amended: every non-forced trigger that does not bypass the schedule
\* (the automatic path) starts a run only if the cooldown has elapsed (or is
\* unset) and the last sync is at least two hours old (or absent); a step
\* that neither attaches a call nor advances a run changes no state.
C4_ScheduledTriggerGuarded ==
  [][/\ \A c \in ProcIds :
          (Started(c) /\ ~procs'[c].force /\ ~procs'[c].bypass)
          => /\ meta.next_sync_not_before = Null \/ now >= Val(meta.next_sync_not_before)
             /\ meta.last_sync_at = Null \/ now - Val(meta.last_sync_at) >= TWO_HOURS_MS
     /\ (procs' = procs /\ now' = now)
          => meta' = meta /\ store' = store /\ runningSync' = runningSync
             /\ analyticsVersion' = analyticsVersion]_vars

\* a run started by the automatic non-forced trigger two hours or more after
\* the previous sync
C4_Witness ==
  \E c \in ProcIds : IsRun(procs[c]) /\ procs[c].kind = "auto" /\ ~procs[c].force
                     /\ meta.last_sync_at # Null

\* C5: while a cooldown is set and has not elapsed, no run is started by the
\* automatic trigger, whatever the store holds.
C5_NoAutomaticRunBeforeCooldown ==
  [][\A c \in ProcIds :
       (Started(c) /\ procs'[c].kind = "auto")
       => meta.next_sync_not_before = Null \/ now >= Val(meta.next_sync_not_before)]_vars

\* C6: right after a run ends Completed the persisted state has cursor 1,
\* no totalPages, no cooldown, no error and lastSyncAt = completion time.
C6_CompletedState ==
  [][\A c \in ProcIds :
       Ends(c, "Completed")
       => /\ meta'.sync_cursor_page = Some(1)
          /\ meta'.sync_total_pages = Null
          /\ meta'.next_sync_not_before = Null
          /\ meta'.last_sync_error = Null
          /\ meta'.last_sync_at = Some(now)]_vars

\* a run that resumed behind page 1 with a known total has ended Completed
C6_Witness ==
  \E c \in ProcIds : procs[c].pc = "resolved" /\ procs[c].outcome = "Completed"
                     /\ procs[c].startPage > 1 /\ procs[c].totalPages > 0

\* C7: the mode of a run is full if the store is empty when it starts or the
\* trigger is forced, and the persisted syncMode otherwise; an incremental
\* run happens only on a non-empty store, unforced, with persisted mode
\* incremental.
C7_ModeSelection ==
  [][\A c \in ProcIds :
       Started(c)
       => /\ procs'[c].mode = IF procs'[c].force \/ totalDomains(SeenStore(c)) = 0 THEN "full"
                              ELSE getSyncMode(SeenMeta(c))
          /\ procs'[c].mode = "incremental"
               => /\ totalDomains(store) > 0 /\ ~procs'[c].force /\ ~procs'[c].reset
                  /\ meta.sync_mode = Some("incremental")]_vars

\* an incremental run is in flight
C7_Witness == \E c \in ProcIds : IsRun(procs[c]) /\ procs[c].mode = "incremental"

\* C8: persisted syncMode goes from full to incremental only when a full run
\* ends Completed; a full run that ends Interrupted or Failed leaves it full;
\* no step of an incremental run changes it; a forced trigger that starts a
\* run and a reset leave it full.
C8_ModeTransitions ==
  [][/\ (getSyncMode(meta) = "full" /\ getSyncMode(meta') = "incremental")
          => \E c \in ProcIds : Ends(c, "Completed") /\ procs[c].mode = "full"
     /\ \A c \in ProcIds :
          /\ (procs[c].mode = "full" /\ (Ends(c, "Interrupted") \/ Ends(c, "Failed")))
               => getSyncMode(meta') = "full"
          /\ (procs[c].mode = "full" /\ procs[c].pc \in {"rejected", "rethrown"} /\ procs'[c] # procs[c])
               => getSyncMode(meta') = "full"
          /\ (IsRun(procs'[c]) /\ procs'[c].mode = "incremental" /\ procs'[c] # procs[c])
               => getSyncMode(meta') = getSyncMode(meta)
          /\ (IsRun(procs[c]) /\ procs[c].mode = "incremental" /\ procs'[c] # procs[c])
               => getSyncMode(meta') = getSyncMode(meta)
          /\ (Started(c) /\ procs'[c].force) => getSyncMode(meta') = "full"
          /\ (procs[c].pc = "free" /\ procs'[c].pc # "free" /\ procs'[c].reset)
               => getSyncMode(meta') = "full"]_vars

\* a full run has ended Completed and the persisted mode is now incremental
C8_Witness ==
  \E c \in ProcIds : procs[c].pc = "resolved" /\ procs[c].outcome = "Completed"
                     /\ procs[c].mode = "full" /\ meta.sync_mode = Some("incremental")

\* C9: whenever a call with force and reset settles with success, the run it
\* awaited is a full run that this call started at page 1 on the store it
\* had just cleared.
C9_ResetAwaitsOwnFullRun ==
  [][\A c \in ProcIds :
       (procs[c].pc # "done" /\ procs'[c].pc = "done" /\ procs'[c].result = "ok"
        /\ procs'[c].force /\ procs'[c].reset)
       => /\ procs[c].joined = 0
          /\ procs[c].mode = "full" /\ procs[c].startPage = 1 /\ procs[c].startEmpty]_vars

\* the page just processed by run c satisfies the end condition or, in an
\* incremental run with a watermark, carries no row newer than the watermark
C10_EndOrConverged(c) ==
  \/ IF procs'[c].totalPages > 0 THEN procs[c].page >= procs'[c].totalPages
     ELSE Val(meta'.sync_last_source_count) < PAGE_SIZE_SYNC
  \/ /\ procs[c].mode = "incremental" /\ procs[c].cursorCreatedAtTs > 0
     /\ ~(procs'[c].pageMaxTs > procs[c].cursorCreatedAtTs)

C11_ResumeAfterInterruption ==
  [][\A c \in ProcIds :
       /\ (Started(c) /\ ~procs'[c].force /\ ~procs'[c].reset /\ lastRun.outcome = "Interrupted")
            => /\ procs'[c].pc = "fetch"
               /\ procs'[c].page = lastRun.page + 1
               /\ procs'[c].startPage = lastRun.page + 1
               /\ procs'[c].mode = lastRun.mode
               /\ procs'[c].totalPages = lastRun.totalPages
       /\ IsRun(procs'[c]) => procs'[c].page >= procs'[c].startPage
       /\ (procs[c].pc = "free" /\ procs'[c].pc # "free" /\ procs'[c].force
           /\ lastRun.outcome = "Interrupted")
            => /\ Started(c)
               /\ procs'[c].page = 1 /\ procs'[c].totalPages = 0 /\ procs'[c].mode = "full"
               /\ meta'.sync_cursor_page = Some(1) /\ meta'.sync_total_pages = Null]_vars

\* a non-forced run that resumed at page 81 with a known total has processed
\* a page
C11_Witness ==
  \E c \in ProcIds : IsRun(procs[c]) /\ ~procs[c].force /\ procs[c].pagesProcessed >= 1
                     /\ procs[c].startPage = SYNC_MAX_PAGES_PER_RUN + 1 /\ procs[c].totalPages > 0

\* C12: when the last run ended Failed after it had processed one page or
\* more, the next run started by a non-forced trigger (of a request without
\* reset) starts at the page whose fetch failed, that is, behind the last
\* page the failed run processed.
C12_ResumeAfterFailure ==
  [][\A c \in ProcIds :
       (Started(c) /\ ~procs'[c].force /\ ~procs'[c].reset
        /\ lastRun.outcome = "Failed" /\ lastRun.pagesProcessed >= 1)
       => procs'[c].page = lastRun.page]_vars

\* run c has taken a fetched page through the loop body in this step
Processed(c) == procs[c].pc = "fetch" /\ procs'[c].pagesProcessed = procs[c].pagesProcessed + 1

\* C13: while a run knows no total, every page it processes is recorded as
\* lastPage; a page with fewer than 100 raw rows ends the run Completed at
\* once, whatever survived normalization; a page with 100 raw rows ends the
\* run only by incremental convergence or by the page budget, and otherwise
\* the run goes on to the next page.
C13_ShortPageEndsRun ==
  [][\A c \in ProcIds :
       (Processed(c) /\ procs'[c].totalPages = 0)
       => /\ meta'.sync_last_page = Some(procs[c].page)
          /\ Val(meta'.sync_last_source_count) < PAGE_SIZE_SYNC
               => /\ Ends(c, "Completed")
                  /\ getSoindaSyncStatus'.lastPage = Some(procs[c].page)
          /\ Val(meta'.sync_last_source_count) >= PAGE_SIZE_SYNC
               => /\ procs'[c].outcome = "Completed"
                       => /\ procs[c].mode = "incremental" /\ procs[c].cursorCreatedAtTs > 0
                          /\ ~(procs'[c].pageMaxTs > procs[c].cursorCreatedAtTs)
                  /\ procs'[c].outcome = "Interrupted"
                       => procs'[c].pagesProcessed = SYNC_MAX_PAGES_PER_RUN
                  /\ procs'[c].outcome = "none"
                       => procs'[c].pc = "sleep" /\ procs'[c].page = procs[c].page + 1]_vars

\* a run that started at page 1 has ended Completed on a short third page
\* after two full pages, no total known, and lastPage is 3
C13_Witness ==
  \E c \in ProcIds : /\ procs[c].outcome = "Completed" /\ procs[c].startPage = 1
                     /\ procs[c].page = 3 /\ procs[c].pagesProcessed = 3
                     /\ procs[c].totalPages = 0 /\ procs[c].mode = "full"
                     /\ meta.sync_last_source_count = Some(ShortCount)
                     /\ meta.sync_last_page = Some(3)

\* C14: every processed page ends the run Completed when the total is known
\* and the page number has reached it, or when the page has fewer raw rows
\* than the page size, also below a known total.
C14_EndOfCatalog ==
  [][\A c \in ProcIds :
       (Processed(c)
        /\ \/ procs'[c].totalPages > 0 /\ procs[c].page >= procs'[c].totalPages
           \/ Val(meta'.sync_last_source_count) < PAGE_SIZE_SYNC)
       => Ends(c, "Completed")]_vars

\* the end-of-catalog test of the page run c has just processed
C15_ReachedEnd(c) ==
  IF procs'[c].totalPages > 0 THEN procs[c].page >= procs'[c].totalPages
  ELSE Val(meta'.sync_last_source_count) < PAGE_SIZE_SYNC

\* C15: in an incremental run with watermark W every processed page is
\* upserted; a page without a row newer than W ends the run Completed, also
\* when it is the 80th page of the run; a page with a row newer than W ends
\* the run only by the end-of-catalog test (Completed) or, failing that, by
\* the page budget (Interrupted), and otherwise the run goes on.
C15_IncrementalConvergence ==
  [][\A c \in ProcIds :
       (Processed(c) /\ procs[c].mode = "incremental" /\ procs[c].cursorCreatedAtTs > 0)
       => /\ procs'[c].pageMaxTs > 0 => \E d \in Domains : store'[d] = [ts |-> procs'[c].pageMaxTs]
          /\ ~(procs'[c].pageMaxTs > procs[c].cursorCreatedAtTs) => Ends(c, "Completed")
          /\ procs'[c].pageMaxTs > procs[c].cursorCreatedAtTs
               => /\ C15_ReachedEnd(c) <=> procs'[c].outcome = "Completed"
                  /\ procs'[c].outcome = "Interrupted"
                       <=> (~C15_ReachedEnd(c) /\ procs'[c].pagesProcessed = SYNC_MAX_PAGES_PER_RUN)
                  /\ procs'[c].outcome = "none"
                       => procs'[c].pc = "sleep" /\ procs'[c].page = procs[c].page + 1]_vars

\* an incremental run went past two pages with newer rows and ended
\* Completed on a full third page whose newest row is not newer than the
\* watermark; the row of that page is in the store
C15_Witness ==
  \E c \in ProcIds : /\ procs[c].outcome = "Completed" /\ procs[c].mode = "incremental"
                     /\ procs[c].page = 3 /\ procs[c].pagesProcessed = 3 /\ procs[c].totalPages = 0
                     /\ meta.sync_last_source_count = Some(PAGE_SIZE_SYNC)
                     /\ procs[c].pageMaxTs > 0 /\ procs[c].pageMaxTs <= procs[c].cursorCreatedAtTs
                     /\ procs[c].pageMaxTs < procs[c].maxSeenTs
                     /\ store["a.com"] = [ts |-> procs[c].pageMaxTs]

\* a persisted timestamp as a number, 0 when absent
C16_Ts(x) == IF x = Null THEN 0 ELSE Val(x)

\* C16: when a run ends Completed or Interrupted the persisted
\* sourceCreatedAtMax is not below its value before the end of the run and
\* not below any timestamp the run has seen, so that it never decreases
\* from one run to the next.
C16_WatermarkNeverDecreases ==
  [][\A c \in ProcIds :
       (Ends(c, "Completed") \/ Ends(c, "Interrupted"))
       => /\ C16_Ts(meta'.source_created_at_max) >= C16_Ts(meta.source_created_at_max)
          /\ C16_Ts(meta'.source_created_at_max) >= procs'[c].maxSeenTs]_vars

C18_EveryRunEnds ==
  /\ [][\A c \in ProcIds :
          (IsRun(procs[c]) /\ ~IsRun(procs'[c]))
          => /\ procs[c].outcome \in {"Completed", "Interrupted", "Failed"}
             /\ ~getSoindaSyncStatus'.isSyncing]_vars
  /\ \A c \in ProcIds : IsRun(procs[c]) ~> ~IsRun(procs[c])

\* a run that met 80 pages of 100 rows, no total and nothing to converge on
\* is over, and isSyncing is false
C18_Witness ==
  /\ lastRun.outcome = "Interrupted" /\ lastRun.mode = "full" /\ lastRun.totalPages = 0
  /\ lastRun.pagesProcessed = SYNC_MAX_PAGES_PER_RUN
  /\ runningSync = 0 /\ \A c \in ProcIds : ~IsRun(procs[c])

\* the function has left the retry loop with every retry used up
C19_Exhausted == fetcher.pc = "wait" /\ fetcher'.pc = "failed"

\* C19: one call makes at most 9 requests; a 2xx response returns at once; a
\* 429 or a status >= 500 is followed by a wait and, while fewer than 9
\* requests were made, by another request; after the 9th the call fails,
\* with the rate-limit error when every response was 429 and with the
\* upstream-unavailable error when every response was a 5xx; any other
\* status fails the call at once with the upstream-rejected error.
C19_RetryProtocol ==
  [][/\ fetcher'.requests <= MAX_RETRIES + 1
     /\ (fetcher.pc = "request" /\ fetcher'.pc # "request" /\ fetcher'.response # 0)
          => LET status == fetcher'.response
             IN /\ fetcher'.requests = fetcher.requests + 1
                /\ (status >= 200 /\ status < 300) => fetcher'.pc = "returned"
                /\ (status = 429 \/ status >= 500) => fetcher'.pc = "wait"
                /\ (status \notin {429} /\ status < 500 /\ ~(status >= 200 /\ status < 300))
                     => /\ fetcher'.pc = "failed"
                        /\ fetcher'.error = <<"soinda api error (", StatusText[status], ")">>
     /\ (fetcher.pc = "wait" /\ fetcher'.pc = "request") => fetcher.requests <= MAX_RETRIES
     /\ (fetcher.pc = "wait" /\ fetcher'.pc # "wait")
          => fetcher'.pc = IF fetcher.requests <= MAX_RETRIES THEN "request" ELSE "failed"
     /\ C19_Exhausted
          => /\ fetcher.requests = MAX_RETRIES + 1
             /\ fetcher.seen = {429} => fetcher'.error = ERR_RATE
             /\ (\A s \in fetcher.seen : s >= 500)
                  => /\ fetcher'.error[1] = "soinda api no disponible ("
                     /\ fetcher'.error \in {ERR_UNAVAILABLE, UnavailableError(500)}
     /\ fetcher'.pc = "returned" => fetcher.pc = "request"]_vars

\* a call has failed with the rate-limit error after 9 requests that were
\* all answered 429
C19_Witness ==
  /\ fetcher.pc = "failed" /\ fetcher.error = ERR_RATE
  /\ fetcher.requests = MAX_RETRIES + 1 /\ fetcher.seen = {429}

\* the wait the claim gives for the response that was just received
C20_Expected ==
  IF fetcher.lastStatus = 429
  THEN IF fetcher.retryAfter.present /\ fetcher.retryAfter.numeric
       THEN LET ms == fetcher.retryAfter.sec * 1000
            IN IF ms < 1000 THEN 1000 ELSE IF ms > 120000 THEN 120000 ELSE ms
       ELSE IF 2000 * 2^fetcher.attempt > 120000 THEN 120000 ELSE 2000 * 2^fetcher.attempt
  ELSE IF 1000 * 2^fetcher.attempt > 30000 THEN 30000 ELSE 1000 * 2^fetcher.attempt

\* C20: the wait after a 429 on attempt k is the Retry-After seconds clamped
\* to [1s, 120s] when the header is numeric and min(120s, 2s * 2^k)
\* otherwise; after a status >= 500 it is min(30s, 1s * 2^k); it is never
\* below 1s nor above 120s.
C20_BackoffDurations ==
  fetcher.pc = "wait"
  => /\ fetcher.waitMs = C20_Expected
     /\ fetcher.waitMs >= 1000 /\ fetcher.waitMs <= 120000

\* a 429 on a retry carried Retry-After: 121 and the wait is 120 s
C20_Witness ==
  /\ fetcher.pc = "wait" /\ fetcher.lastStatus = 429 /\ fetcher.attempt >= 1
  /\ fetcher.retryAfter.numeric /\ fetcher.retryAfter.sec = 121 /\ fetcher.waitMs = 120000

\* ---------------------------------------------------------------- C21
\* the items of the pages of a loop, in the order of their ingestion
RECURSIVE Flatten(_)
Flatten(pages) == IF pages = <<>> THEN <<>> ELSE Head(pages) \o Flatten(Tail(pages))

\* the last item of a domain in a sequence of items that names it
LastItemOf(d, items) ==
  items[CHOOSE i \in 1..Len(items) :
          items[i].domain = d /\ \A j \in 1..Len(items) : items[j].domain = d => j <= i]

\* C21: last write wins, without merge: after a page loop every domain it
\* named has one stored record, which reads back as the last item ingested
\* for the domain with all of tld, available, price, currency, status and
\* raw; the records of the other domains are those of their own last
\* ingestion, untouched; and no domain has two records.
C21_LastWriteWins ==
  [][exchange'.kind = "loop" /\ exchange' # exchange
       => LET items == Flatten(exchange'.pages)
              named == {items[i].domain : i \in 1..Len(items)}
          IN /\ \A d \in named :
                  {ReadBack(r) : r \in {x \in catalog' : x.domain = d}} = {LastItemOf(d, items)}
             /\ \A d \in CatDomains \ named :
                  {r \in catalog' : r.domain = d} = {r \in catalog : r.domain = d}
             /\ \A d \in CatDomains : Cardinality({r \in catalog' : r.domain = d}) <= 1]_vars

\* a loop has ingested a domain twice with different payloads, over a record
\* that an earlier loop stored
C21_Witness ==
  /\ exchange.kind = "loop"
  /\ \E i, j \in 1..Len(Flatten(exchange.pages)) :
       /\ i < j
       /\ Flatten(exchange.pages)[i].domain = Flatten(exchange.pages)[j].domain
       /\ Flatten(exchange.pages)[i].price # Flatten(exchange.pages)[j].price
  /\ Len(exchange.pages) = 2
  /\ \E r \in catalog : r.updated_at < now

\* ---------------------------------------------------------------- C22
\* the content of the table: every column but updated_at
Content(rows) == {ReadBack(r) : r \in rows}

\* C22: idempotence: the page loop run a second time over the same pages
\* leaves the content of the table (the domains and every field except
\* updated_at) as the first one left it.
C22_Idempotence ==
  [][exchange.kind = "loop" /\ exchange'.kind = "loop" /\ exchange.pass = 1 /\ exchange'.pass = 2
       => Content(catalog') = Content(catalog)]_vars

\* a loop of two pages that name one domain with different payloads has run
\* a second time, later than the first, and has stamped its rows anew
C22_Witness ==
  /\ exchange.kind = "loop"
  /\ exchange.pass = 2
  /\ now > exchange.at
  /\ Len(exchange.pages) = 2
  /\ \E i \in 1..Len(exchange.pages[1]), j \in 1..Len(exchange.pages[2]) :
       /\ exchange.pages[1][i].domain = exchange.pages[2][j].domain
       /\ exchange.pages[1][i] # exchange.pages[2][j]
  /\ \E r \in catalog : r.updated_at = now

\* ---------------------------------------------------------------- C23
\* the domain names the table holds
StoredNames(rows) == {r.domain : r \in rows}

\* C23: a stored record is deleted by a reset only: every step that is not
\* a reset (a page of a run, the end of a run as Completed, Interrupted or
\* Failed, a query, an analytics request, the passing of time) leaves every
\* stored domain name in the table.
C23_OnlyResetDeletes ==
  [][~(exchange.kind = "none" /\ exchange'.kind = "reset")
       => StoredNames(catalog) \subseteq StoredNames(catalog')]_vars

\* a run that stored a row has ended Failed and the row is there
C23_Witness ==
  /\ lastRun.outcome = "Failed"
  /\ runningSync = 0
  /\ catalog # {}

\* ---------------------------------------------------------------- C24
\* the entries a request with these options may be served from: under the
\* canonical key of its filters, of the current version, younger than five
\* minutes
C24_Usable(options) ==
  {e \in analyticsCache : /\ e.key = CacheKey(options)
                          /\ e.version = analyticsVersion
                          /\ now - e.ts < 5 * 60 * 1000}

\* C24: an analytics request is answered from the cache, without a
\* recomputation, exactly when the cache holds an entry for the canonical
\* key of its filters whose version is the current one and whose age is below
\* five minutes, and then the cache stays as it is; in every other case the
\* answer is computed from the table and the entry of that key is replaced
\* by one with the new value, the current version and the current time.
C24_HitOrRecompute ==
  [][exchange.kind = "none" /\ exchange'.kind = "analytics"
       => LET options == exchange'.options
              key == CacheKey(options)
          IN IF C24_Usable(options) # {}
             THEN /\ ~exchange'.recomputed
                  /\ \E e \in C24_Usable(options) : exchange'.value = e.value
                  /\ analyticsCache' = analyticsCache
             ELSE /\ exchange'.recomputed
                  /\ exchange'.value = ComputeAnalytics(catalog, options)
                  /\ {e \in analyticsCache' : e.key # key} = {e \in analyticsCache : e.key # key}
                  /\ {<<e.ts, e.version, e.value>> : e \in {x \in analyticsCache' : x.key = key}}
                       = {<<now, analyticsVersion, exchange'.value>>}]_vars

\* a request is answered from an entry that is half a time to live old and
\* was set by a request whose column filters were written differently
C24_Witness ==
  /\ exchange.kind = "analytics"
  /\ ~exchange.recomputed
  /\ exchange.options.columnFilters # CacheKey(exchange.options).columnFilters
  /\ \E e \in analyticsCache : e.key = CacheKey(exchange.options) /\ now - e.ts = CacheStepMs
  /\ Cardinality(analyticsCache) = 2

\* ---------------------------------------------------------------- C25
\* C25: an analytics request that finds an entry for its filters set less
\* than five minutes ago is answered with the value of the entry, without a
\* recomputation, when the table has not been written since the entry was
\* set, and is answered by a recomputation when the table has been written
\* since (by a page of a run, however the run ends, or by a reset).
C25_MutationForcesRecompute ==
  [][exchange.kind = "none" /\ exchange'.kind = "analytics"
       => \A e \in analyticsCache :
            e.key = CacheKey(exchange'.options) /\ now - e.ts < 5 * 60 * 1000
              => IF e.written THEN exchange'.recomputed
                 ELSE ~exchange'.recomputed /\ exchange'.value = e.value]_vars

\* ---------------------------------------------------------------- C26
\* C26: networked store: analytics are never stale across a completed sync:
\* a request that is answered from the cache never gets aggregates that the
\* table no longer gives and that were read from the table before a run
\* ended Completed, under an entry that was set after that completion.
C26_NoStaleAcrossCompletion ==
  [][exchange.kind = "none" /\ exchange'.kind = "analytics" /\ ~exchange'.recomputed
       => ~(exchange'.crossed /\ exchange'.value # ComputeAnalytics(catalog, exchange'.options))]_vars

\* ---------------------------------------------------------------- C28
\* needle occurs in text
C28_Contains(text, needle) ==
  \E i \in 0..(Len(text) - Len(needle)) : SubSeq(text, i + 1, i + Len(needle)) = needle

\* the filter predicate on one record: substring match on the domain name,
\* exact match on the TLD, the availability filter, and for every column
\* filter a substring match on the named field, all without regard to case
C28_Satisfies(row, options) ==
  /\ C28_Contains(Lower(Chars(row.domain)), Lower(Trim(options.q)))
  /\ Trim(options.tld) # NoText => Lower(Chars(row.tld)) = Lower(Trim(options.tld))
  /\ options.available # Null => row.available # Null /\ (row.available = Some(1)) = Val(options.available)
  /\ \A i \in 1..Len(options.columnFilters) :
       LET f == options.columnFilters[i]
       IN C28_Contains(Lower(IF f.field = Chars("domain") THEN Chars(row.domain)
                             ELSE Coalesce(JsonExtract(row.raw_json, f.field))),
                       Lower(Trim(f.value)))

\* C28: every answer of QueryDomains has total equal to the number of stored
\* records that satisfy the filter predicate, rows equal to the records at
\* positions [offset, offset + pageSize) of the matching records in sort
\* order, with offset = (page - 1) * pageSize, and hasMore true exactly
\* when offset + pageSize < total.
C28_PageOfMatching ==
  exchange.kind = "query" /\ exchange.engine = "sqlite"
    => LET o == exchange.options
           matching == {r \in catalog : C28_Satisfies(r, o)}
           offset == (o.page - 1) * o.perPage
       IN /\ exchange.total = Cardinality(matching)
          /\ exchange.hasMore = (offset + o.perPage < exchange.total)
          /\ \E order \in SortedOrders("sqlite", matching, exchange.orderBy) :
               exchange.data = [i \in 1..Len(LimitOffset(order, o.perPage, offset)) |->
                                  ReadBack(LimitOffset(order, o.perPage, offset)[i])]

\* ---------------------------------------------------------------- C29
\* the characters a raw-field name may be made of
C29_Allowed ==
  {"a", "b", "c", "d", "e", "f", "g", "h", "i", "j", "k", "l", "m", "n", "o", "p", "q", "r", "s",
   "t", "u", "v", "w", "x", "y", "z", "A", "B", "C", "D", "E", "F", "G", "H", "I", "J", "K", "L",
   "M", "N", "O", "P", "Q", "R", "S", "T", "U", "V", "W", "X", "Y", "Z", "0", "1", "2", "3", "4",
   "5", "6", "7", "8", "9", "_"}

C29_Fixed == {Chars(c) : c \in {"domain", "tld", "available", "price", "currency", "status"}}

\* the rows are in the order of their domain names, upwards or downwards
C29_ByDomain(data) ==
  \/ \A i, j \in 1..Len(data) : i < j => TextLeq(Chars(data[i].domain), Chars(data[j].domain))
  \/ \A i, j \in 1..Len(data) : i < j => TextLeq(Chars(data[j].domain), Chars(data[i].domain))

\* C29: in both stores the text of a sort key is put into the raw-field
\* lookup of the query only if it is made of letters, digits and underscores
\* alone; a key that is neither such a word nor one of the six fixed columns
\* puts no text into the query, which then orders by the domain column, and
\* the rows come ordered by domain.
C29_SortKeySafety ==
  exchange.kind = "query"
    => LET key == Trim(IF exchange.options.sortBy = NoText THEN Chars("domain")
                       ELSE exchange.options.sortBy)
           word == key # NoText /\ \A i \in 1..Len(key) : key[i] \in C29_Allowed
       IN /\ exchange.orderBy.expr = "json"
               => word /\ exchange.orderBy.name = key /\ key \notin C29_Fixed
          /\ ~word /\ key \notin C29_Fixed
               => /\ exchange.orderBy.expr = "column"
                  /\ exchange.orderBy.name = Chars("domain")
                  /\ C29_ByDomain(exchange.data)

\* a query with a sort key that ends in a quotation mark has been answered
\* with two rows
C29_Witness ==
  /\ exchange.kind = "query"
  /\ exchange.options.sortBy = <<"l", "e", "v", "e", "l", "\"">>
  /\ Len(exchange.data) = 2
  /\ exchange.data[1].domain # exchange.data[2].domain

\* ---------------------------------------------------------------- C30
\* C30: for the same table and the same options, what one store answers
\* to QueryDomains the other store may answer too: the same rows in the same
\* order, the same total and the same hasMore, for every sort key and both
\* directions.
C30_SameAnswers ==
  exchange.kind = "query"
    => \E other \in QueryResults(IF exchange.engine = "sqlite" THEN "pg" ELSE "sqlite",
                                  catalog, exchange.options) :
         /\ other.data = exchange.data
         /\ other.total = exchange.total
         /\ other.hasMore = exchange.hasMore

\* ---------------------------------------------------------------- C27
\* the runs that end without error in a step, and the resets of a step
C27_RunsEnded == {c \in ProcIds : Ends(c, "Completed") \/ Ends(c, "Interrupted")}

C27_Resets == {c \in ProcIds : procs[c].pc = "free" /\ procs'[c].pc # "free" /\ procs'[c].reset}

\* C27: the cache version never decreases: every step changes it by one for
\* each run that ends Completed or Interrupted in the step and by one for
\* each reset of the step, so a Failed run, a trigger that starts no run, a
\* joined trigger, a page that does not end its run and the passing of time
\* leave it as it is.
C27_VersionCounts ==
  [][analyticsVersion' = analyticsVersion + Cardinality(C27_RunsEnded) + Cardinality(C27_Resets)]_vars

\* the version has been raised once, and the run that ended last, after
\* that, ended Failed and is over
C27_Witness ==
  /\ analyticsVersion = 1
  /\ lastRun.outcome = "Failed"
  /\ runningSync = 0
  /\ \A c \in ProcIds : procs[c].pc = "free"

\* ---------------------------------------------------------------- C31
\* the request answered in a step is one of the three read requests
C31_Reads == exchange' # exchange /\ exchange'.kind \in {"status", "query", "analytics"}

\* C31: read-only consumers: a step that answers GetSyncStatus, QueryDomains
\* or GetAnalytics of the embedded store changes no row of the table, no
\* metadata key, not the handle and not the cache version; the first two
\* leave the cache as it is, and GetAnalytics changes no entry of the cache
\* but the one of its own key.
C31_ReadOnlyConsumers ==
  [][C31_Reads
       => /\ catalog' = catalog /\ store' = store /\ meta' = meta
          /\ analyticsVersion' = analyticsVersion /\ runningSync' = runningSync
          /\ exchange'.kind # "analytics" => analyticsCache' = analyticsCache
          /\ exchange'.kind = "analytics"
               => {e \in analyticsCache' : e.key # CacheKey(exchange'.options)}
                    = {e \in analyticsCache : e.key # CacheKey(exchange'.options)}]_vars

\* an analytics request has been computed over a table with rows while the
\* cache held the entry of another key, which is still there
C31_Witness ==
  /\ exchange.kind = "analytics" /\ exchange.recomputed
  /\ catalog # {}
  /\ \E e \in analyticsCache : e.key # CacheKey(exchange.options)
  /\ \E e \in analyticsCache : e.key = CacheKey(exchange.options) /\ e.ts = now

\* ---------------------------------------------------------------- C32
\* C32: error propagation: when a run has ended Failed its error is
\* persisted in lastError; a query or analytics request that triggered or
\* joined it through ensureSoindaDataLoaded goes on without an error,
\* whatever the store held, and a caller of the manual sync endpoint gets
\* the error exactly when the run it awaited ended Failed.
C32_ErrorPropagation ==
  \A c \in ProcIds :
    procs[c].pc = "done"
      => /\ lastRun.outcome = "Failed" => meta.last_sync_error # Null
         /\ procs[c].kind = "auto" => procs[c].result = "ok"
         /\ procs[c].kind = "post" => (procs[c].result = "err") = (lastRun.outcome = "Failed")

\* ---------------------------------------------------------------- C33
\* C33: a query or analytics request never waits for a run: no call of
\* ensureSoindaDataLoaded is suspended on the promise of a run, neither of
\* the run it started nor of a run that was in flight.
C33_RequestsNeverWait ==
  \A c \in ProcIds :
    procs[c].kind = "auto" /\ procs[c].awaited => procs[c].pc \notin RunPcs \cup {"joined"}

\* ---------------------------------------------------------------- C37
\* C37: paging metadata: in every state the status reports cursorPage >= 1,
\* totalPages absent or >= 1 and lastPage absent or >= 1; while no run is in
\* flight and totalPages is known, cursorPage <= totalPages; and after a run
\* has ended Interrupted, cursorPage = lastPage + 1.
C37_PagingMetadata ==
  LET status == getSoindaSyncStatus
  IN /\ status.cursorPage >= 1
     /\ status.totalPages # Null => Val(status.totalPages) >= 1
     /\ status.lastPage # Null => Val(status.lastPage) >= 1
     /\ runningSync = 0 /\ status.totalPages # Null
          => status.cursorPage <= Val(status.totalPages)
     /\ lastRun.outcome = "Interrupted"
          => status.lastPage # Null /\ status.cursorPage = Val(status.lastPage) + 1

\* a run that knew the number of pages has ended Interrupted and has left
\* its cursor behind its last page
C37_Witness ==
  /\ lastRun.outcome = "Interrupted"
  /\ runningSync = 0
  /\ meta.sync_total_pages = Some(SYNC_MAX_PAGES_PER_RUN + 1)
  /\ meta.sync_cursor_page = Some(SYNC_MAX_PAGES_PER_RUN + 1)

\* ---------------------------------------------------------------- C38
\* C38: an incremental run starts without a watermark when none is
\* persisted and no stored row has a parseable timestamp; in such a run the
\* convergence test ends nothing: a page ends the run Completed exactly by
\* the end-of-catalog test, Interrupted exactly by the page budget, and
\* otherwise the run goes on to the next page.  In an incremental run with
\* a watermark a page without any parseable timestamp ends the run
\* Completed.
C38_WatermarkAbsent ==
  [][\A c \in ProcIds :
       /\ Started(c) /\ procs'[c].mode = "incremental"
            /\ meta.source_created_at_max = Null
            /\ (\A d \in Domains : store[d] = Null \/ store[d].ts = 0)
            => procs'[c].cursorCreatedAtTs = 0
       /\ Processed(c) /\ procs[c].mode = "incremental" /\ procs[c].cursorCreatedAtTs = 0
            => /\ C15_ReachedEnd(c) <=> procs'[c].outcome = "Completed"
               /\ procs'[c].outcome = "Interrupted"
                    <=> (~C15_ReachedEnd(c) /\ procs'[c].pagesProcessed = SYNC_MAX_PAGES_PER_RUN)
               /\ procs'[c].outcome = "none"
                    => procs'[c].pc = "sleep" /\ procs'[c].page = procs[c].page + 1
       /\ Processed(c) /\ procs[c].mode = "incremental" /\ procs[c].cursorCreatedAtTs > 0
            /\ procs'[c].pageMaxTs = 0
            => Ends(c, "Completed")]_vars

\* an incremental run without a watermark has gone past pages whose rows
\* carry timestamps and has ended Interrupted by the page budget
C38_Witness ==
  \E c \in ProcIds : /\ procs[c].mode = "incremental" /\ procs[c].cursorCreatedAtTs = 0
                     /\ procs[c].outcome = "Interrupted"
                     /\ procs[c].pagesProcessed = SYNC_MAX_PAGES_PER_RUN
                     /\ procs[c].maxSeenTs > 0

\* ---------------------------------------------------------------- C36
\* C36: a full pass over a stable upstream of N pages whose total is
\* reported, without fetch failures, forced triggers or resets: the pages
\* are fetched in increasing order from page 1, each once; every run that
\* does not end the pass ends Interrupted after 80 pages; and when a run has
\* ended Completed it is the run number ceil(N / 80), the pages fetched are
\* exactly 1..N, and the table holds the row of every page that had one.
C36_FullPass ==
  exchange.kind = "pass"
    => LET n == exchange.pages
           fetched == exchange.fetched
           runs == exchange.runs
       IN /\ \A i \in 1..Len(fetched) : fetched[i] = i
          /\ Len(fetched) <= n
          /\ \A i \in 1..Len(runs) :
               IF i * SYNC_MAX_PAGES_PER_RUN < n
               THEN runs[i] = "Interrupted" /\ Len(fetched) >= i * SYNC_MAX_PAGES_PER_RUN
               ELSE runs[i] = "Completed"
          /\ (\E i \in 1..Len(runs) : runs[i] = "Completed")
               => /\ Len(runs) = CeilDiv(n, SYNC_MAX_PAGES_PER_RUN)
                  /\ Len(fetched) = n
                  /\ \A page \in 1..n :
                       PassItems(n, page) # <<>>
                         => \E r \in catalog : r.domain = PassItems(n, page)[1].domain
                                                /\ ReadBack(r).price = PassItems(n, page)[1].price

\* a pass over 160 pages has been finished by its second run, after a first
\* run that ended Interrupted, and all three domains are in the table
C36_Witness ==
  /\ exchange.kind = "pass"
  /\ exchange.pages = 2 * SYNC_MAX_PAGES_PER_RUN
  /\ exchange.runs = <<"Interrupted", "Completed">>
  /\ Len(exchange.fetched) = 2 * SYNC_MAX_PAGES_PER_RUN
  /\ {r.domain : r \in catalog} = CatDomains
  /\ runningSync = 0

\* the catch handler of the engine, handed the error of the failed call,
\* writes the cooldown
C39_SetsCooldown(error) ==
  CatchWrites(meta, error, now).next_sync_not_before # meta.next_sync_not_before

\* C39: 429 and 5xx responses use up the same nine requests of one call; the
\* error behind the ninth is decided by the ninth response alone, the
\* rate-limit error after a 429 and the upstream-unavailable error with the
\* status after a 5xx; the catch handler sets the cooldown exactly for the
\* rate-limit error, so never for a call whose last response was a 5xx or a
\* 4xx that is not retried.
C39_MixedRetries ==
  [][/\ fetcher'.requests <= MAX_RETRIES + 1
     /\ (fetcher.pc = "request" /\ fetcher'.response \in {429, 500, 503})
          => /\ fetcher'.pc = "wait"
             /\ fetcher'.requests = fetcher.attempt + 1
     /\ (fetcher.pc = "wait" /\ fetcher'.pc = "request")
          => /\ fetcher.requests <= MAX_RETRIES
             /\ fetcher'.attempt = fetcher.attempt + 1
     /\ (fetcher.pc = "wait" /\ fetcher'.pc = "failed")
          => /\ fetcher.requests = MAX_RETRIES + 1
             /\ fetcher.response = 429 => fetcher'.error = ERR_RATE
             /\ fetcher.response >= 500
                  => fetcher'.error = <<"soinda api no disponible (", StatusText[fetcher.response], ")">>
     /\ (fetcher.pc # "failed" /\ fetcher'.pc = "failed")
          => /\ C39_SetsCooldown(fetcher'.error) <=> fetcher'.error = ERR_RATE
             /\ fetcher'.response # 429 => ~C39_SetsCooldown(fetcher'.error)]_vars

\* a call has failed after nine requests answered by 429 and by 5xx, the
\* last of them by 503, and its error does not set the cooldown
C39_Witness ==
  /\ fetcher.pc = "failed" /\ fetcher.requests = MAX_RETRIES + 1
  /\ {429, 500, 503} \subseteq fetcher.seen /\ fetcher.response = 503
  /\ fetcher.error = UnavailableError(503)
  /\ ~C39_SetsCooldown(fetcher.error)

RECURSIVE C35_AllArrays(_, _)
\* every array of a payload down to the depth bound, those that are
\* elements of an array or lie inside the elements of an array included
C35_AllArrays(value, depth) ==
  IF depth > COLLECT_MAX_DEPTH \/ value.t \notin {"array", "object"} THEN {}
  ELSE (IF value.t = "array" THEN {value.items} ELSE {})
         \cup UNION {C35_AllArrays(value.items[i], depth + 1) : i \in 1..Len(value.items)}

\* C35: extractRows returns an array of the payload, found at any place down
\* to the depth bound, that no other such array beats by score or, at equal
\* score, by length; that is the longest when none scores above zero; a
\* payload without an array gives the empty sequence.
C35_ExtractRows ==
  exchange.kind = "rows"
    => LET all == C35_AllArrays(exchange.payload, 0)
       IN IF all = {} THEN exchange.rows = <<>>
          ELSE /\ exchange.rows \in all
               /\ \A a \in all : ~RankBefore(a, exchange.rows)

\* the row of the scenario
C34_ScenarioRow ==
  ObjectOf(<<Pair(<<"d", "o", "m", "a", "i", "n", "_", "n", "a", "m", "e">>, JString(<<"E", "x", "a", "m", "p", "l", "e", ".", "C", "O", "M">>)), Pair(<<"d", "i", "s", "p", "o", "n", "i", "b", "l", "e">>, JString(<<"s", "i">>)),
             Pair(<<"p", "r", "e", "c", "i", "o">>, JString(<<"1", "2", ",", "5", "0">>))>>)

\* a value is present: neither missing nor null
C34_Present(value) == value.t \notin {"null", "undefined"}

\* the value of the first present alias, or undefined
C34_FirstAlias(row, aliases) ==
  IF \A k \in 1..Len(aliases) : ~C34_Present(Field(row, aliases[k])) THEN JUndefined
  ELSE Field(row, aliases[CHOOSE k \in 1..Len(aliases) :
                            /\ C34_Present(Field(row, aliases[k]))
                            /\ \A m \in 1..(k - 1) : ~C34_Present(Field(row, aliases[m]))])

\* a text with a domain name in it
C34_NamesDomain(value) == value.t = "string" /\ DomainMatches(Lower(value.text)) # {}

\* the true and false tokens in English and Spanish
C34_TrueTokens == {<<"t", "r", "u", "e">>, <<"1">>, <<"y", "e", "s">>, <<"s", "i">>, <<"a", "v", "a", "i", "l", "a", "b", "l", "e">>, <<"l", "i", "b", "r", "e">>}

C34_FalseTokens == {<<"f", "a", "l", "s", "e">>, <<"0">>, <<"n", "o">>, <<"o", "c", "c", "u", "p", "i", "e", "d">>, <<"o", "c", "u", "p", "a", "d", "o">>, <<"t", "a", "k", "e", "n">>}

\* price texts and the numbers they stand for, in hundredths
C34_Decimals == {<<<<"1", "2", ",", "5", "0">>, 1250>>, <<<<"7">>, 700>>, <<<<"3">>, 300>>}

\* price texts that are no numbers
C34_NotNumbers == {<<"a", "b", "c">>, <<"1", ",", "2", "3", "4", ",", "5", "0">>}

\* C34: an object row with a domain becomes a record with the lower-cased
\* domain found in the first candidate field, in priority order, that names
\* one; its tld is the last label of the domain; available and price are
\* the coerced value of the first present alias: a boolean as it is, a true
\* or false token in English or Spanish, a number as it is, a decimal text
\* with point or comma, and null when the value is none of these; raw is
\* the row itself; a row without a domain gives no record and is left out
\* of the page. The row {"domain_name": "Example.COM", "disponible": "si",
\* "precio": "12,50"} gives example.com, com, true, 12.5.
C34_Normalize ==
  exchange.kind = "rows"
    => /\ Len(exchange.records) = Len(exchange.rows)
       /\ Len(exchange.data) = Cardinality({i \in 1..Len(exchange.records) : exchange.records[i] # Null})
       /\ \A i \in 1..Len(exchange.records) :
            exchange.records[i] # Null
              => \E j \in 1..Len(exchange.data) : exchange.data[j] = Val(exchange.records[i])
       /\ \A i \in 1..Len(exchange.rows) :
            LET row == exchange.rows[i]
                found == exchange.records[i]
            IN row.t = "object"
                 => /\ found = Null
                         => \A k \in 1..Len(row.items) : ~C34_NamesDomain(row.items[k])
                    /\ (\E k \in 1..Len(row.items) : C34_NamesDomain(row.items[k])) => found # Null
                    /\ found # Null
                         => LET record == Val(found)
                                domain == record.domain
                                tld == record.tld
                                available == C34_FirstAlias(row, AVAILABLE_ALIASES)
                                price == C34_FirstAlias(row, PRICE_ALIASES)
                            IN /\ domain = Lower(domain)
                               /\ \A k \in 1..Len(DOMAIN_CANDIDATES) :
                                    (/\ C34_NamesDomain(Field(row, DOMAIN_CANDIDATES[k]))
                                     /\ \A m \in 1..(k - 1) :
                                          ~C34_NamesDomain(Field(row, DOMAIN_CANDIDATES[m]))
                                     /\ \A m \in 1..(k - 1) :
                                          Field(row, DOMAIN_CANDIDATES[m]).t = "string"
                                            => ~IncludesText(Field(row, DOMAIN_CANDIDATES[m]).text, <<".">>))
                                      => /\ IsDomainShaped(domain)
                                         /\ IncludesText(Lower(Field(row, DOMAIN_CANDIDATES[k]).text), domain)
                               /\ Len(tld) < Len(domain)
                               /\ \A c \in 1..Len(tld) : tld[c] # "."
                               /\ domain[Len(domain) - Len(tld)] = "."
                               /\ SubSeq(domain, Len(domain) - Len(tld) + 1, Len(domain)) = tld
                               /\ available.t = "undefined" => record.available = Null
                               /\ available.t = "boolean" => record.available = Some(available.num = 1)
                               /\ available.t = "string"
                                    => record.available =
                                         IF Lower(Trim(available.text)) \in C34_TrueTokens THEN Some(TRUE)
                                         ELSE IF Lower(Trim(available.text)) \in C34_FalseTokens THEN Some(FALSE)
                                         ELSE Null
                               /\ price.t = "undefined" => record.price = Null
                               /\ price.t = "number" => record.price = Some(price.num)
                               /\ \A d \in C34_Decimals :
                                    (price.t = "string" /\ price.text = d[1]) => record.price = Some(d[2])
                               /\ (price.t = "string" /\ price.text \in C34_NotNumbers)
                                    => record.price = Null
                               /\ record.raw = row
                    /\ row = C34_ScenarioRow
                         => /\ found # Null
                            /\ Val(found).domain = <<"e", "x", "a", "m", "p", "l", "e", ".", "c", "o", "m">> /\ Val(found).tld = <<"c", "o", "m">>
                            /\ Val(found).available = Some(TRUE) /\ Val(found).price = Some(1250)

\* the row of the scenario has been normalized to the record the spec gives
C34_Witness ==
  /\ exchange.kind = "rows" /\ exchange.rows = <<C34_ScenarioRow>>
  /\ Len(exchange.data) = 1
  /\ exchange.data[1].domain = <<"e", "x", "a", "m", "p", "l", "e", ".", "c", "o", "m">> /\ exchange.data[1].tld = <<"c", "o", "m">>
  /\ exchange.data[1].available = Some(TRUE) /\ exchange.data[1].price = Some(1250)
  /\ exchange.data[1].raw = C34_ScenarioRow

====
